---- MODULE Spec2Model ----
(***************************************************************************)
(* Client-side workflow controller of the Skill Gap Analyzer frontend:     *)
(* the App view router (App.jsx), the ProfileList and ProfileDisplay       *)
(* loaders and the AnalysisChat session (components/*.jsx).                *)
(*                                                                         *)
(* Execution model: one UI event loop.  Every action below is one event    *)
(* handler, or the continuation of one awaited network call, run to        *)
(* completion; React commits the state updates of a handler before the     *)
(* next event is dispatched.  A component that is not rendered holds its   *)
(* initial state; the state updates of a continuation whose component      *)
(* instance has been unmounted are ignored by React (call.live = FALSE).   *)
(*                                                                         *)
(* JavaScript strings are sequences of characters; a string literal of the *)
(* source is a sequence of one token.  A value that may be undefined is a  *)
(* record [def, str].  Message timestamps (new Date()) are not modelled.   *)
(***************************************************************************)
EXTENDS Integers, Sequences, FiniteSets, TLC

\* Bound: analyze requests issued by one chat session.
MaxCalls == 2

\* Bound: length of the list returned by GET /api/profiles.
MaxProfiles == 2

\* Bound: length of the skills list and of the certifications list of the form.
MaxItems == 3

\* Bound: calls of unmounted components that are pending at one time.
MaxOrphans == 1

(***************************************************************************)
(* JavaScript values                                                       *)
(***************************************************************************)
Null == [null |-> TRUE]

Undefined == [def |-> FALSE, str |-> <<>>]

S(s) == [def |-> TRUE, str |-> s]

\* JS truthiness of a string-or-undefined value: undefined and "" are falsy.
Truthy(v) == v.def /\ v.str # <<>>

\* a || b
Or(a, b) == IF Truthy(a) THEN a ELSE b

RECURSIVE TrimStart(_)
TrimStart(s) ==
  IF s # <<>> /\ Head(s) = " " THEN TrimStart(Tail(s)) ELSE s

RECURSIVE TrimEnd(_)
TrimEnd(s) ==
  IF s # <<>> /\ s[Len(s)] = " " THEN TrimEnd(SubSeq(s, 1, Len(s) - 1)) ELSE s

\* String.prototype.trim
Trim(s) == TrimEnd(TrimStart(s))

\* !s.trim()
IsBlank(s) == Trim(s) = <<>>

(***************************************************************************)
(* Inputs: what the user can type and what the service can answer          *)
(***************************************************************************)
\* values of the chat textarea and of the target role field
Typed == {<<>>, <<" ">>, <<" ", "q">>}

\* values of the target role field
TypedRoles == {<<>>, <<" ">>, <<"r">>}

\* values of the name field of the form
TypedNames == {<<>>, <<" ">>, <<"n">>}

\* values of the current role field of the form
TypedCurrentRoles == {<<>>, <<"c">>}

\* values of the skill name field and of the certification field of the form
TypedItems == {<<>>, <<" ">>, <<"s">>}

\* the same fields with two entries that differ, and the proficiency select
TypedEntries == {<<>>, <<" ">>, <<"s">>, <<" ", "t">>}

Proficiencies == {<<"beginner">>, <<"expert">>}

IdValues == {Undefined, S(<<>>), S(<<"1">>)}

ProfileIdValues == {Undefined, S(<<"2">>)}

\* records the profile endpoints can return
Profiles == [id : IdValues, profile_id : ProfileIdValues]

\* bodies of GET /api/profiles/{id}: id absent, empty or present, or only a
\* profile_id
ProfileBodies == {p \in Profiles : ~p.id.def \/ ~p.profile_id.def}

RECURSIVE SeqsUpTo(_, _)
SeqsUpTo(X, n) ==
  IF n = 0 THEN {<<>>}
  ELSE SeqsUpTo(X, n - 1) \cup
       {Append(s, x) : s \in {t \in SeqsUpTo(X, n - 1) : Len(t) = n - 1}, x \in X}

ProfileLists == SeqsUpTo(Profiles, MaxProfiles)

\* values of the query field of the profile view
TypedQueries == {<<>>, <<"q">>}

\* a list-or-undefined field of a response body
NoList == [def |-> FALSE, items |-> <<>>]

List(items) == [def |-> TRUE, items |-> items]

\* a SkillGapItem
Skill(name) == [skill_name |-> <<name>>]

\* a number of the response, in thousandths, or the field is absent
NoNumber == [def |-> FALSE, milli |-> 0]

Number(milli) == [def |-> TRUE, milli |-> milli]

\* GapReport bodies: summary absent, empty and present; each skills list absent,
\* empty and non-empty; gap score absent, 62.5 and 0
Reports ==
  {[analysis_summary |-> Undefined,
    overall_gap_score |-> NoNumber,
    skills_met |-> NoList,
    skills_missing |-> List(<<>>),
    skills_weak |-> NoList],
   [analysis_summary |-> S(<<>>),
    overall_gap_score |-> Number(62500),
    skills_met |-> List(<<>>),
    skills_missing |-> List(<<Skill("sql")>>),
    skills_weak |-> List(<<>>)],
   [analysis_summary |-> S(<<"summary">>),
    overall_gap_score |-> Number(0),
    skills_met |-> List(<<Skill("git"), Skill("css")>>),
    skills_missing |-> NoList,
    skills_weak |-> List(<<Skill("go")>>)]}

\* rejections: err.response?.data?.detail and err.message
Errors ==
  {[detail |-> S(<<"profile not found">>), message |-> S(<<"Network Error">>)],
   [detail |-> S(<<>>), message |-> S(<<"Network Error">>)],
   [detail |-> Undefined, message |-> S(<<"Network Error">>)],
   [detail |-> Undefined, message |-> S(<<>>)],
   [detail |-> Undefined, message |-> Undefined]}

(***************************************************************************)
(* State                                                                   *)
(***************************************************************************)
VARIABLES
  view,            \* App: 'list' | 'create' | 'profile' | 'chat'
  selectedProfile, \* App: Null or a profile record
  profileList,     \* ProfileList: [profiles, loading, error]
  profileDisplay,  \* ProfileDisplay: [profile, loading, error, showAnalysis, ...]
  analysisChat,    \* AnalysisChat: [messages, input, loading, targetRole]
  listCalls,       \* outstanding profileAPI.list() calls
  getCalls,        \* outstanding profileAPI.get(id) calls
  analyzeCalls,    \* outstanding analysisAPI.analyze(requestData) calls
  profileForm,     \* ProfileForm: [formData, newSkill, newCert, loading, error]
  createCalls,     \* outstanding profileAPI.create(profileData) calls
  issued,          \* history: number of analyze requests the mounted chat issued
  event,           \* history: the handler or continuation that ran last
  alert,           \* text of the alert() dialog raised by the last handler
  apiStatus,       \* App: 'checking' | 'connected' | 'disconnected'
  healthCalls      \* number of outstanding healthCheck() calls

vars == <<view, selectedProfile, profileList, profileDisplay, analysisChat,
          listCalls, getCalls, analyzeCalls, profileForm, createCalls,
          issued, event, alert, apiStatus, healthCalls>>

\* the state and the calls of App's connectivity probe
health == <<apiStatus, healthCalls>>

NoAlert == <<>>

Event(name, outcome, arg) == [name |-> name, outcome |-> outcome, arg |-> arg]

\* a continuation ran in an unmounted component instance: no state update applies
Ignored == Event("unmounted", "ignored", Null)

\* the same for the catch branch of handleSubmit
IgnoredCreate == Event("handleSubmit.catch", "ignored", Null)

\* the same for a getProfile call, with the id it was made for
IgnoredGet(c) == Event("unmounted", "ignored", [profileId |-> c.request])

(***************************************************************************)
(* Component state at mount                                                *)
(***************************************************************************)
\* useState(null) of a string state: null and undefined are both falsy
NoError == Undefined

ProfileListInit == [profiles |-> <<>>, loading |-> TRUE, error |-> NoError]

ProfileDisplayInit ==
  [profile |-> Null, loading |-> TRUE, error |-> NoError,
   showAnalysis |-> FALSE, analysisQuery |-> <<>>, targetRole |-> <<>>,
   analyzing |-> FALSE, analysisResult |-> Null, analysisError |-> NoError,
   showSkillsModal |-> FALSE, modalSkills |-> <<>>, modalTitle |-> <<>>]

AnalysisChatInit ==
  [messages |-> <<>>, input |-> <<>>, loading |-> FALSE, targetRole |-> <<>>]

\* The calls of a component instance that unmounts: the requests stay in flight
\* and their continuations still run, but React ignores the state updates of an
\* unmounted instance.  Nothing can read what such a continuation captured, so
\* only the fact that it is pending is kept.
Orphaned(calls) == {[c EXCEPT !.live = FALSE, !.request = Null] : c \in calls}

\* mutant: the loadProfile continuations of an unmounted ProfileDisplay act on
\* the mounted one
UnmountedStillLive(calls) == calls

\* The getProfile calls of a ProfileDisplay that unmounts; the id each was made
\* for is kept, as history.
Unmounted(calls) == {[c EXCEPT !.live = FALSE] : c \in calls}

\* mutant: the continuations of an unmounted chat or profile view act on the
\* mounted one
OrphanedAnalyzeStillLive(calls) == calls

\* the same for analyze calls, whose number and issuer are history of the
\* unmounted instance
OrphanedAnalyze(calls) ==
  {[c EXCEPT !.id = 0, !.by = "unmounted"] : c \in Orphaned(calls)}

\* the pending calls of unmounted components
Dead(calls) == {c \in calls : ~c.live}

\* navigation that leaves calls pending stays within the bound
OrphansBounded ==
  Cardinality(Dead(getCalls')) + Cardinality(Dead(analyzeCalls'))
    + Cardinality(Dead(createCalls')) <= MaxOrphans

(***************************************************************************)
(* App.jsx and ProfileList: selection guard                                *)
(***************************************************************************)
\* mutant: operands swapped, profile.profile_id || profile.id
ResolveIdSwapped(profile) == Or(profile.profile_id, profile.id)

\* const profileId = profile.id || profile.profile_id
ResolveId(profile) == Or(profile.id, profile.profile_id)

\* { ...profile, id: profileId }
WithId(profile, profileId) == [profile EXCEPT !.id = profileId]

\* ProfileList card: if (onSelectProfile && profileId)
CardSelects(profile) == Truthy(ResolveId(profile))

\* App.handleSelectProfile: if (!profileId) { alert(...); return; }
SelectRefused(profile) == ~Truthy(ResolveId(profile))

\* <ProfileDisplay profileId={selectedProfile.id || selectedProfile.profile_id
\*                            || selectedProfile.id} />
ProfileIdProp(selected) == Or(Or(selected.id, selected.profile_id), selected.id)

\* mutant: the raw message takes precedence over the payload's detail
ErrorTextMessageFirst(err, fallback) == Or(Or(err.message, err.detail), S(fallback))

\* err.response?.data?.detail || err.message || fallback
ErrorText(err, fallback) == Or(Or(err.detail, err.message), S(fallback))

(***************************************************************************)
(* AnalysisChat.handleSend                                                 *)
(***************************************************************************)
\* mutant: the fields are tested without .trim()
SendRejectedNoTrim(chat) ==
  chat.input = <<>> \/ chat.targetRole = <<>> \/ chat.loading

\* mutant: the guard is if (!input.trim() || loading), the role is not tested
SendRejectedRoleUnchecked(chat) == IsBlank(chat.input) \/ chat.loading

\* if (!input.trim() || !targetRole.trim() || loading) return;
SendRejected(chat) ==
  IsBlank(chat.input) \/ IsBlank(chat.targetRole) \/ chat.loading

\* userMessage; call is a history field: the analyze call the message belongs to
UserMessage(input, call) ==
  [type |-> "user", content |-> input, report |-> Null, call |-> call]

\* mutant: the query is trimmed before it is sent
RequestDataTrimmed(profile, currentInput, currentTargetRole) ==
  [user_profile_id |-> Or(profile.id, profile.profile_id),
   user_query |-> Trim(currentInput),
   target_role |-> [role_name |-> currentTargetRole,
                    description |-> <<>>,
                    skill_framework |-> <<>>],
   use_rag |-> TRUE]

\* requestData
RequestData(profile, currentInput, currentTargetRole) ==
  [user_profile_id |-> Or(profile.id, profile.profile_id),
   user_query |-> currentInput,
   target_role |-> [role_name |-> currentTargetRole,
                    description |-> <<>>,
                    skill_framework |-> <<>>],
   use_rag |-> TRUE]

\* mutant: setLoading(true) is missing
SubmittedNotBusy(chat, userMessage) ==
  [chat EXCEPT !.messages = Append(@, userMessage), !.input = <<>>]

\* mutant: setMessages([userMessage]) replaces the log
SubmittedResetsLog(chat, userMessage) ==
  [chat EXCEPT !.messages = <<userMessage>>, !.loading = TRUE, !.input = <<>>]

\* setMessages(prev => [...prev, userMessage]); setLoading(true); setInput('')
Submitted(chat, userMessage) ==
  [chat EXCEPT !.messages = Append(@, userMessage),
               !.loading = TRUE,
               !.input = <<>>]

\* mutant: the fallback text is missing
AssistantMessageNoFallback(response, call) ==
  [type |-> "assistant",
   content |-> response.analysis_summary.str,
   report |-> response,
   call |-> call]

\* assistantMessage
AssistantMessage(response, call) ==
  [type |-> "assistant",
   content |-> Or(response.analysis_summary, S(<<"Analysis completed">>)).str,
   report |-> response,
   call |-> call]

\* errorMessage
ErrorMessage(error, call) ==
  [type |-> "error",
   content |-> ErrorText(error, <<"Failed to analyze skills">>).str,
   report |-> Null,
   call |-> call]

\* mutant: the finally block is missing
SettledStuck(chat, message) ==
  [chat EXCEPT !.messages = Append(@, message)]

\* mutant: setMessages(prev => [message, ...prev])
SettledPrepends(chat, message) ==
  [chat EXCEPT !.messages = <<message>> \o @, !.loading = FALSE]

\* setMessages(prev => [...prev, message]) followed by finally { setLoading(false) }
Settled(chat, message) ==
  [chat EXCEPT !.messages = Append(@, message), !.loading = FALSE]

(***************************************************************************)
(* ProfileDisplay: analysis panel and skills modal (AnalysisChat.jsx       *)
(* 461-985)                                                                *)
(***************************************************************************)
\* a || b on strings
StrOr(a, b) == IF a # <<>> THEN a ELSE b

\* ProfileDisplay.handleAnalyze: requestData
DisplayRequestData(profileId, analysisQuery, targetRole) ==
  [user_profile_id |-> profileId,
   user_query |-> StrOr(analysisQuery,
                        <<"I want to transition to ">>
                          \o StrOr(targetRole, <<"a new role">>) \o <<".">>),
   target_role |-> [role_name |-> StrOr(targetRole, <<"Target Role">>),
                    description |-> <<>>,
                    skill_framework |-> <<>>],
   use_rag |-> TRUE]

\* mutant: setAnalysisResult(null) is missing
AnalyzingKeepsResult(display) ==
  [display EXCEPT !.analyzing = TRUE, !.analysisError = NoError]

\* ProfileDisplay.handleAnalyze: the state updates before the await
Analyzing(display) ==
  [display EXCEPT !.analyzing = TRUE, !.analysisError = NoError,
                  !.analysisResult = Null]

\* the titles the three buttons of the skills summary pass to handleShowSkills
SkillsMet == <<"S", "k", "i", "l", "l", "s", " ", "M", "e", "t">>

SkillsMissing == <<"S", "k", "i", "l", "l", "s", " ", "M", "i", "s", "s", "i", "n", "g">>

SkillsWeak == <<"S", "k", "i", "l", "l", "s", " ", "W", "e", "a", "k">>

Titles == {SkillsMet, SkillsMissing, SkillsWeak}

\* the list a button passes with its title
SkillsOf(report, title) ==
  CASE title = SkillsMet -> report.skills_met
    [] title = SkillsMissing -> report.skills_missing
    [] title = SkillsWeak -> report.skills_weak

\* the button is rendered: the one of Skills Weak only for a non-empty list
ButtonShown(report, title) ==
  title = SkillsWeak =>
    report.skills_weak.def /\ Len(report.skills_weak.items) > 0

\* String.prototype.toLowerCase, on the characters of the titles
ToLowerCase(str) ==
  [i \in 1..Len(str) |->
     CASE str[i] = "S" -> "s"
       [] str[i] = "M" -> "m"
       [] str[i] = "W" -> "w"
       [] OTHER -> str[i]]

\* handleShowSkills: if (!skills || skills.length === 0)
NoSkills(skills) == ~skills.def \/ Len(skills.items) = 0

\* handleShowSkills: the text of the alert
NoSkillsNotice(title) == <<"No ">> \o ToLowerCase(title) \o <<" found.">>

\* mutant: setModalTitle(title) is missing
ShowSkillsNoTitle(display, skills, title) ==
  IF NoSkills(skills)
  THEN display
  ELSE [display EXCEPT !.modalSkills = skills.items, !.showSkillsModal = TRUE]

\* mutant: the guard is if (!skills), an empty list opens the modal
ShowSkillsEmptyOpens(display, skills, title) ==
  IF ~skills.def
  THEN display
  ELSE [display EXCEPT !.modalSkills = skills.items, !.modalTitle = title,
                       !.showSkillsModal = TRUE]

\* handleShowSkills: the state it leaves
ShowSkills(display, skills, title) ==
  IF NoSkills(skills)
  THEN display
  ELSE [display EXCEPT !.modalSkills = skills.items, !.modalTitle = title,
                       !.showSkillsModal = TRUE]

\* mutant: setModalTitle('') is missing
CloseModalKeepsTitle(display) ==
  [display EXCEPT !.showSkillsModal = FALSE, !.modalSkills = <<>>]

\* handleCloseModal: the state it leaves
CloseModal(display) ==
  [display EXCEPT !.showSkillsModal = FALSE, !.modalSkills = <<>>,
                  !.modalTitle = <<>>]

\* mutant: the content has no onClick, the click bubbles to the backdrop
ContentClickedBubbles(display) == CloseModal(display)

\* click inside the modal content: e.stopPropagation(), the backdrop's handler
\* does not run
ContentClicked(display) == display

(***************************************************************************)
(* Report figures (AnalysisChat.jsx 138-155, 745-789, 799-875)             *)
(***************************************************************************)
\* what an expression renders: a text, or nothing
NotShown == [shown |-> FALSE, text |-> <<>>]

Text(str) == [shown |-> TRUE, text |-> str]

DigitChars == <<"0", "1", "2", "3", "4", "5", "6", "7", "8", "9">>

\* a natural number as React renders it: its decimal digits
RECURSIVE Digits(_)
Digits(n) ==
  IF n < 10 THEN <<DigitChars[n + 1]>>
  ELSE Digits(n \div 10) \o <<DigitChars[(n % 10) + 1]>>

\* Number.prototype.toFixed(2) of a non-negative number given in thousandths
ToFixed2(milli) ==
  LET hundredths == (milli + 5) \div 10
  IN Digits(hundredths \div 100) \o <<".">>
       \o Digits((hundredths % 100) \div 10) \o Digits(hundredths % 10)

\* list?.length || 0
LengthOr0(list) == IF list.def THEN Len(list.items) ELSE 0

\* list?.length > 0
NonEmpty(list) == list.def /\ Len(list.items) > 0

\* the summary under an assistant message of the chat: gap score, skills met,
\* skills missing
ChatSummary(report) ==
  [gapScore |-> IF report.overall_gap_score.def
                THEN Text(ToFixed2(report.overall_gap_score.milli))
                ELSE Text(<<"N", "/", "A">>),
   met |-> Text(Digits(LengthOr0(report.skills_met))),
   missing |-> Text(Digits(LengthOr0(report.skills_missing))),
   weak |-> NotShown]

\* the 'Analysis Results' box of the dashboard
ResultsBox(report) ==
  LET stats == \/ NonEmpty(report.skills_met)
               \/ NonEmpty(report.skills_missing)
               \/ NonEmpty(report.skills_weak)
      Count(list) == IF stats THEN Text(Digits(LengthOr0(list))) ELSE NotShown
  IN [gapScore |-> IF report.overall_gap_score.def
                   THEN Text(ToFixed2(report.overall_gap_score.milli))
                   ELSE NotShown,
      met |-> Count(report.skills_met),
      missing |-> Count(report.skills_missing),
      weak |-> Count(report.skills_weak)]

\* the 'Skills Summary' column of the dashboard
SkillsSummary(report) ==
  [gapScore |-> IF report.overall_gap_score.def
                THEN Text(ToFixed2(report.overall_gap_score.milli))
                ELSE NotShown,
   met |-> Text(Digits(LengthOr0(report.skills_met))),
   missing |-> Text(Digits(LengthOr0(report.skills_missing))),
   weak |-> IF NonEmpty(report.skills_weak)
            THEN Text(Digits(Len(report.skills_weak.items))) ELSE NotShown]

(***************************************************************************)
(* ProfileForm (AnalysisChat.jsx 208-452)                                  *)
(* The years fields and experience_years keep their initial values: no     *)
(* handler reads them.                                                     *)
(***************************************************************************)
NewSkillInit ==
  [name |-> <<>>, proficiency |-> <<"beginner">>, years_experience |-> 0]

ProfileFormInit ==
  [formData |-> [name |-> <<>>, current_role |-> <<>>, skills |-> <<>>,
                 certifications |-> <<>>, experience_years |-> 0],
   newSkill |-> NewSkillInit,
   newCert |-> <<>>,
   loading |-> FALSE,
   error |-> NoError]

\* mutant: the last element is dropped whatever the index
RemoveAtLast(s, index) == [i \in 1..(Len(s) - 1) |-> s[i]]

\* s.filter((_, i) => i !== index), positions counted from 1
RemoveAt(s, index) == [i \in 1..(Len(s) - 1) |-> IF i < index THEN s[i] ELSE s[i + 1]]

\* mutant: the skill is stored with its name trimmed
AddSkillTrimmed(form) ==
  IF Trim(form.newSkill.name) # <<>>
  THEN [form EXCEPT
          !.formData.skills = Append(@, [form.newSkill EXCEPT !.name = Trim(@)]),
          !.newSkill = NewSkillInit]
  ELSE form

\* mutant: the guard is if (newSkill.name), without trim()
AddSkillNoTrim(form) ==
  IF form.newSkill.name # <<>>
  THEN [form EXCEPT !.formData.skills = Append(@, form.newSkill),
                    !.newSkill = NewSkillInit]
  ELSE form

\* handleAddSkill
AddSkill(form) ==
  IF Trim(form.newSkill.name) # <<>>
  THEN [form EXCEPT !.formData.skills = Append(@, form.newSkill),
                    !.newSkill = NewSkillInit]
  ELSE form

\* handleAddCert
AddCert(form) ==
  IF Trim(form.newCert) # <<>>
  THEN [form EXCEPT !.formData.certifications = Append(@, form.newCert),
                    !.newCert = <<>>]
  ELSE form

\* skill.years_experience || 0
NumberOr(n, d) == IF n = 0 THEN d ELSE n

\* handleSubmit: const profileData = { ...formData, skills: formData.skills.map(...) }
ProfileData(formData) ==
  [formData EXCEPT
     !.skills = [i \in 1..Len(formData.skills) |->
                   [name |-> formData.skills[i].name,
                    proficiency |-> formData.skills[i].proficiency,
                    years_experience |->
                      NumberOr(formData.skills[i].years_experience, 0)]]]

(***************************************************************************)
(* Initial state: App mounted on the list view, ProfileList loading        *)
(***************************************************************************)
Init ==
  /\ view = "list"
  /\ selectedProfile = Null
  /\ profileList = ProfileListInit
  /\ profileDisplay = ProfileDisplayInit
  /\ analysisChat = AnalysisChatInit
  /\ listCalls = {[live |-> TRUE, request |-> Null]}
  /\ getCalls = {}
  /\ analyzeCalls = {}
  /\ profileForm = ProfileFormInit
  /\ createCalls = {}
  /\ issued = 0
  /\ event = Event("mount", "done", Null)
  /\ alert = NoAlert
  /\ apiStatus = "checking"
  /\ healthCalls = 1

(***************************************************************************)
(* ProfileList                                                             *)
(***************************************************************************)
\* loadProfiles: try branch
ListSucceeds(c, data) ==
  /\ c \in listCalls
  /\ listCalls' = listCalls \ {c}
  /\ profileList' = IF c.live
                    THEN [profileList EXCEPT !.profiles = data, !.loading = FALSE]
                    ELSE profileList
  /\ event' = IF c.live THEN Event("loadProfiles.then", "applied", Null) ELSE Ignored
  /\ alert' = NoAlert
  /\ UNCHANGED <<view, selectedProfile, profileDisplay, analysisChat,
                 getCalls, analyzeCalls, issued>>
  /\ UNCHANGED <<profileForm, createCalls>>
  /\ UNCHANGED health

\* loadProfiles: catch branch
ListFails(c, err) ==
  /\ c \in listCalls
  /\ listCalls' = listCalls \ {c}
  /\ profileList' = IF c.live
                    THEN [profileList EXCEPT
                            !.error = ErrorText(err, <<"Failed to load profiles">>),
                            !.loading = FALSE]
                    ELSE profileList
  /\ event' = IF c.live THEN Event("loadProfiles.catch", "applied", Null) ELSE Ignored
  /\ alert' = NoAlert
  /\ UNCHANGED <<view, selectedProfile, profileDisplay, analysisChat,
                 getCalls, analyzeCalls, issued>>
  /\ UNCHANGED <<profileForm, createCalls>>
  /\ UNCHANGED health

\* the list with its buttons and cards is rendered
ListShown == view = "list" /\ ~profileList.loading /\ ~Truthy(profileList.error)

\* click on the card of profiles[i]; on success App.handleSelectProfile runs and
\* ProfileDisplay mounts, whose effect starts loadProfile
SelectProfile(i) ==
  /\ ListShown
  /\ i \in 1..Len(profileList.profiles)
  /\ LET profile == profileList.profiles[i]
         passed == WithId(profile, ResolveId(profile))
         selected == WithId(passed, ResolveId(passed))
         profileId == ProfileIdProp(selected)
     IN IF ~CardSelects(profile)
        THEN /\ alert' = <<"Error: Profile ID not found">>
             /\ event' = Event("selectProfile", "refused", [i |-> i])
             /\ UNCHANGED <<view, selectedProfile, profileList, profileDisplay,
                            listCalls, getCalls>>
        ELSE IF SelectRefused(passed)
        THEN /\ alert' = <<"Error: Profile ID not found. Please try again.">>
             /\ event' = Event("selectProfile", "refused", [i |-> i])
             /\ UNCHANGED <<view, selectedProfile, profileList, profileDisplay,
                            listCalls, getCalls>>
        ELSE /\ alert' = NoAlert
             /\ event' = Event("selectProfile", "selected", [i |-> i])
             /\ selectedProfile' = selected
             /\ view' = "profile"
             /\ profileList' = ProfileListInit
             /\ listCalls' = Orphaned(listCalls)
             /\ IF Truthy(profileId)
                THEN /\ profileDisplay' = ProfileDisplayInit
                     /\ getCalls' = getCalls \cup {[live |-> TRUE, request |-> profileId]}
                ELSE /\ profileDisplay' =
                          [ProfileDisplayInit EXCEPT
                             !.loading = FALSE,
                             !.error = S(<<"No profile ID provided">>)]
                     /\ getCalls' = getCalls
  /\ UNCHANGED <<analysisChat, analyzeCalls, issued>>
  /\ UNCHANGED <<profileForm, createCalls>>
  /\ UNCHANGED health

\* App.handleCreateProfile, from either "Create" button of the list
handleCreateProfile ==
  /\ ListShown
  /\ view' = "create"
  /\ profileList' = ProfileListInit
  /\ listCalls' = Orphaned(listCalls)
  /\ event' = Event("handleCreateProfile", "done", Null)
  /\ alert' = NoAlert
  /\ UNCHANGED <<selectedProfile, profileDisplay, analysisChat,
                 getCalls, analyzeCalls, issued>>
  /\ UNCHANGED <<profileForm, createCalls>>
  /\ UNCHANGED health

\* mutant: setSelectedProfile(null) is missing
handleBackToListKeepsSelected ==
  /\ view # "list"
  /\ view' = "list"
  /\ selectedProfile' = selectedProfile
  /\ profileDisplay' = ProfileDisplayInit
  /\ analysisChat' = AnalysisChatInit
  /\ getCalls' = Unmounted(getCalls)
  /\ analyzeCalls' = OrphanedAnalyze(analyzeCalls)
  /\ profileForm' = ProfileFormInit
  /\ createCalls' = Orphaned(createCalls)
  /\ profileList' = ProfileListInit
  /\ listCalls' = listCalls \cup {[live |-> TRUE, request |-> Null]}
  /\ event' = Event("handleBackToList", "done", Null)
  /\ alert' = NoAlert
  /\ issued' = 0
  /\ OrphansBounded
  /\ UNCHANGED health

\* App.handleBackToList: header button, chat close button, form cancel.
\* The exited view unmounts; ProfileList mounts and its effect starts loadProfiles.
handleBackToList ==
  /\ view # "list"
  /\ view' = "list"
  /\ selectedProfile' = Null
  /\ profileDisplay' = ProfileDisplayInit
  /\ analysisChat' = AnalysisChatInit
  /\ getCalls' = Unmounted(getCalls)
  /\ analyzeCalls' = OrphanedAnalyze(analyzeCalls)
  /\ profileForm' = ProfileFormInit
  /\ createCalls' = Orphaned(createCalls)
  /\ profileList' = ProfileListInit
  /\ listCalls' = listCalls \cup {[live |-> TRUE, request |-> Null]}
  /\ event' = Event("handleBackToList", "done", Null)
  /\ alert' = NoAlert
  /\ issued' = 0
  /\ OrphansBounded
  /\ UNCHANGED health

(***************************************************************************)
(* ProfileDisplay                                                          *)
(***************************************************************************)
\* loadProfile: try branch
GetSucceeds(c, data) ==
  /\ c \in getCalls
  /\ getCalls' = getCalls \ {c}
  /\ profileDisplay' = IF c.live
                       THEN [profileDisplay EXCEPT !.profile = data, !.loading = FALSE]
                       ELSE profileDisplay
  /\ event' = IF c.live THEN Event("loadProfile.then", "applied", Null)
                       ELSE IgnoredGet(c)
  /\ alert' = NoAlert
  /\ UNCHANGED <<view, selectedProfile, profileList, analysisChat,
                 listCalls, analyzeCalls, issued>>
  /\ UNCHANGED <<profileForm, createCalls>>
  /\ UNCHANGED health

\* loadProfile: catch branch
GetFails(c, err) ==
  /\ c \in getCalls
  /\ getCalls' = getCalls \ {c}
  /\ profileDisplay' = IF c.live
                       THEN [profileDisplay EXCEPT
                               !.error = ErrorText(err, <<"Failed to load profile">>),
                               !.loading = FALSE]
                       ELSE profileDisplay
  /\ event' = IF c.live THEN Event("loadProfile.catch", "applied", Null)
                       ELSE IgnoredGet(c)
  /\ alert' = NoAlert
  /\ UNCHANGED <<view, selectedProfile, profileList, analysisChat,
                 listCalls, analyzeCalls, issued>>
  /\ UNCHANGED <<profileForm, createCalls>>
  /\ UNCHANGED health

\* mutant: the button is rendered while the profile is loading or failed
handleAnalyzeNotLoaded ==
  /\ view = "profile"
  /\ selectedProfile' = profileDisplay.profile
  /\ view' = "chat"
  /\ profileDisplay' = ProfileDisplayInit
  /\ getCalls' = Unmounted(getCalls)
  /\ analysisChat' = AnalysisChatInit
  /\ analyzeCalls' = OrphanedAnalyze(analyzeCalls)
  /\ event' = Event("handleAnalyze", "done", Null)
  /\ alert' = NoAlert
  /\ UNCHANGED <<profileList, listCalls, issued, profileForm, createCalls>>
  /\ OrphansBounded
  /\ UNCHANGED health

\* "Analyze Skills" button: onAnalyze(profile), i.e. App.handleAnalyze
handleAnalyze ==
  /\ view = "profile"
  /\ ~profileDisplay.loading
  /\ ~Truthy(profileDisplay.error)
  /\ profileDisplay.profile # Null
  /\ selectedProfile' = profileDisplay.profile
  /\ view' = "chat"
  /\ profileDisplay' = ProfileDisplayInit
  /\ getCalls' = Unmounted(getCalls)
  /\ analysisChat' = AnalysisChatInit
  /\ analyzeCalls' = OrphanedAnalyze(analyzeCalls)
  /\ event' = Event("handleAnalyze", "done", Null)
  /\ alert' = NoAlert
  /\ UNCHANGED <<profileList, listCalls, issued, profileForm, createCalls>>
  /\ OrphansBounded
  /\ UNCHANGED health

\* the profile with its panels and buttons is rendered
DisplayShown ==
  /\ view = "profile"
  /\ ~profileDisplay.loading
  /\ ~Truthy(profileDisplay.error)
  /\ profileDisplay.profile # Null

DisplayUnchanged ==
  UNCHANGED <<view, selectedProfile, profileList, analysisChat, profileForm,
              listCalls, getCalls, analyzeCalls, createCalls, issued>>

\* header of the analysis panel: setShowAnalysis(!showAnalysis).  The panel's
\* three plain setters leave the same history record.
toggleAnalysis ==
  /\ DisplayShown
  /\ profileDisplay' = [profileDisplay EXCEPT !.showAnalysis = ~@]
  /\ event' = Event("onChange", "done", Null)
  /\ alert' = NoAlert
  /\ DisplayUnchanged
  /\ UNCHANGED health

\* target role input of the analysis panel
setDisplayTargetRole(v) ==
  /\ DisplayShown
  /\ profileDisplay.showAnalysis
  /\ v # profileDisplay.targetRole
  /\ profileDisplay' = [profileDisplay EXCEPT !.targetRole = v]
  /\ event' = Event("onChange", "done", Null)
  /\ alert' = NoAlert
  /\ DisplayUnchanged
  /\ UNCHANGED health

\* query textarea of the analysis panel
setAnalysisQuery(v) ==
  /\ DisplayShown
  /\ profileDisplay.showAnalysis
  /\ v # profileDisplay.analysisQuery
  /\ profileDisplay' = [profileDisplay EXCEPT !.analysisQuery = v]
  /\ event' = Event("onChange", "done", Null)
  /\ alert' = NoAlert
  /\ DisplayUnchanged
  /\ UNCHANGED health

\* mutant: the button is disabled={!targetRole.trim()} only
displayAnalyzeNotDisabled ==
  /\ DisplayShown
  /\ profileDisplay.showAnalysis
  /\ ~IsBlank(profileDisplay.targetRole)
  /\ LET profileId == ProfileIdProp(selectedProfile)
     IN /\ Truthy(profileId)
        /\ profileDisplay' = Analyzing(profileDisplay)
        /\ analyzeCalls' = analyzeCalls \cup
             {[id |-> 0, live |-> TRUE, by |-> "display",
               request |-> DisplayRequestData(profileId,
                                              profileDisplay.analysisQuery,
                                              profileDisplay.targetRole)]}
        /\ event' = Event("displayAnalyze", "accepted", Null)
  /\ alert' = NoAlert
  /\ UNCHANGED <<view, selectedProfile, profileList, analysisChat, profileForm,
                 listCalls, getCalls, createCalls, issued>>
  /\ UNCHANGED health

\* ProfileDisplay.handleAnalyze up to its await; the button is
\* disabled={analyzing || !targetRole.trim()}
displayAnalyze ==
  /\ DisplayShown
  /\ profileDisplay.showAnalysis
  /\ ~(profileDisplay.analyzing \/ IsBlank(profileDisplay.targetRole))
  /\ LET profileId == ProfileIdProp(selectedProfile)
     IN IF ~Truthy(profileId)
        THEN /\ profileDisplay' =
                  [profileDisplay EXCEPT
                     !.analysisError = S(<<"Profile ID is missing">>)]
             /\ event' = Event("displayAnalyze", "rejected", Null)
             /\ UNCHANGED analyzeCalls
        ELSE /\ profileDisplay' = Analyzing(profileDisplay)
             /\ analyzeCalls' = analyzeCalls \cup
                  {[id |-> 0, live |-> TRUE, by |-> "display",
                    request |-> DisplayRequestData(profileId,
                                                   profileDisplay.analysisQuery,
                                                   profileDisplay.targetRole)]}
             /\ event' = Event("displayAnalyze", "accepted", Null)
  /\ alert' = NoAlert
  /\ UNCHANGED <<view, selectedProfile, profileList, analysisChat, profileForm,
                 listCalls, getCalls, createCalls, issued>>
  /\ UNCHANGED health

\* ProfileDisplay.handleAnalyze after the await resolved: try, then finally.
\* A call of an unmounted instance is settled by AnalyzeSucceeds/AnalyzeFails.
DisplayAnalyzeSucceeds(c, response) ==
  /\ c \in analyzeCalls
  /\ c.by = "display"
  /\ analyzeCalls' = analyzeCalls \ {c}
  /\ profileDisplay' = [profileDisplay EXCEPT !.analysisResult = response,
                                              !.analyzing = FALSE]
  /\ event' = Event("displayAnalyze.then", "applied", Null)
  /\ alert' = NoAlert
  /\ UNCHANGED <<view, selectedProfile, profileList, analysisChat, profileForm,
                 listCalls, getCalls, createCalls, issued>>
  /\ UNCHANGED health

\* ProfileDisplay.handleAnalyze after the await rejected: catch, then finally
DisplayAnalyzeFails(c, err) ==
  /\ c \in analyzeCalls
  /\ c.by = "display"
  /\ analyzeCalls' = analyzeCalls \ {c}
  /\ profileDisplay' =
       [profileDisplay EXCEPT
          !.analysisError = ErrorText(err, <<"Failed to analyze skills">>),
          !.analyzing = FALSE]
  /\ event' = Event("displayAnalyze.catch", "applied", Null)
  /\ alert' = NoAlert
  /\ UNCHANGED <<view, selectedProfile, profileList, analysisChat, profileForm,
                 listCalls, getCalls, createCalls, issued>>
  /\ UNCHANGED health

\* a button of the skills summary: handleShowSkills(analysisResult.skills_x, title)
handleShowSkills(title) ==
  /\ DisplayShown
  /\ profileDisplay.analysisResult # Null
  /\ ButtonShown(profileDisplay.analysisResult, title)
  /\ LET skills == SkillsOf(profileDisplay.analysisResult, title)
     IN /\ profileDisplay' = ShowSkills(profileDisplay, skills, title)
        /\ alert' = IF NoSkills(skills) THEN NoSkillsNotice(title) ELSE NoAlert
        /\ event' = Event("handleShowSkills",
                          IF NoSkills(skills) THEN "refused" ELSE "opened",
                          [title |-> title])
  /\ DisplayUnchanged
  /\ UNCHANGED health

\* where a click runs handleCloseModal: the backdrop, or the header's or the
\* footer's close button (a click on a button stops at the content)
CloseTargets == {"backdrop", "button"}

\* handleCloseModal by a click on target
handleCloseModal(target) ==
  /\ DisplayShown
  /\ profileDisplay.showSkillsModal
  /\ profileDisplay' = CloseModal(profileDisplay)
  /\ event' = Event("handleCloseModal", "done", [target |-> target])
  /\ alert' = NoAlert
  /\ DisplayUnchanged
  /\ UNCHANGED health

\* click inside the modal content, outside its buttons
clickModalContent ==
  /\ DisplayShown
  /\ profileDisplay.showSkillsModal
  /\ profileDisplay' = ContentClicked(profileDisplay)
  /\ event' = Event("clickModalContent", "done", Null)
  /\ alert' = NoAlert
  /\ DisplayUnchanged
  /\ UNCHANGED health

(***************************************************************************)
(* AnalysisChat                                                            *)
(***************************************************************************)
\* textarea onChange; the textarea is disabled={loading || !targetRole.trim()}
setInput(v) ==
  /\ view = "chat"
  /\ ~(analysisChat.loading \/ IsBlank(analysisChat.targetRole))
  /\ v # analysisChat.input
  /\ analysisChat' = [analysisChat EXCEPT !.input = v]
  /\ event' = Event("setInput", "done", Null)
  /\ alert' = NoAlert
  /\ UNCHANGED <<view, selectedProfile, profileList, profileDisplay,
                 listCalls, getCalls, analyzeCalls, issued>>
  /\ UNCHANGED <<profileForm, createCalls>>
  /\ UNCHANGED health

\* target role input onChange
setTargetRole(v) ==
  /\ view = "chat"
  /\ v # analysisChat.targetRole
  /\ analysisChat' = [analysisChat EXCEPT !.targetRole = v]
  /\ event' = Event("setTargetRole", "done", Null)
  /\ alert' = NoAlert
  /\ UNCHANGED <<view, selectedProfile, profileList, profileDisplay,
                 listCalls, getCalls, analyzeCalls, issued>>
  /\ UNCHANGED <<profileForm, createCalls>>
  /\ UNCHANGED health

\* handleSend up to its await: Send button, Enter in the textarea, or Enter in the
\* target role input (which is never disabled)
handleSend ==
  /\ view = "chat"
  /\ alert' = NoAlert
  /\ IF SendRejected(analysisChat)
     THEN /\ event' = Event("handleSend", "rejected", Null)
          /\ UNCHANGED <<analysisChat, analyzeCalls, issued>>
     ELSE /\ issued < MaxCalls
          /\ LET id == issued + 1
                 requestData == RequestData(selectedProfile, analysisChat.input,
                                            analysisChat.targetRole)
             IN /\ analysisChat' =
                     Submitted(analysisChat, UserMessage(analysisChat.input, id))
                /\ analyzeCalls' = analyzeCalls \cup
                     {[id |-> id, live |-> TRUE, request |-> requestData,
                       by |-> "chat"]}
                /\ issued' = id
          /\ event' = Event("handleSend", "accepted", Null)
  /\ UNCHANGED <<view, selectedProfile, profileList, profileDisplay,
                 listCalls, getCalls>>
  /\ UNCHANGED <<profileForm, createCalls>>
  /\ UNCHANGED health

\* handleSend after the await resolved: try branch, then finally
AnalyzeSucceeds(c, response) ==
  /\ c \in analyzeCalls
  /\ c.by # "display"
  /\ analyzeCalls' = analyzeCalls \ {c}
  /\ analysisChat' = IF c.live
                     THEN Settled(analysisChat, AssistantMessage(response, c.id))
                     ELSE analysisChat
  /\ event' = IF c.live THEN Event("handleSend.then", "applied", response) ELSE Ignored
  /\ alert' = NoAlert
  /\ UNCHANGED <<view, selectedProfile, profileList, profileDisplay,
                 listCalls, getCalls, issued>>
  /\ UNCHANGED <<profileForm, createCalls>>
  /\ UNCHANGED health

\* mutant: the catch branch sends the request again
AnalyzeFailsRetries(c, error) ==
  /\ c \in analyzeCalls
  /\ c.by # "display"
  /\ analyzeCalls' = analyzeCalls
  /\ analysisChat' = IF c.live
                     THEN Settled(analysisChat, ErrorMessage(error, c.id))
                     ELSE analysisChat
  /\ event' = IF c.live THEN Event("handleSend.catch", "applied", error) ELSE Ignored
  /\ alert' = NoAlert
  /\ UNCHANGED <<view, selectedProfile, profileList, profileDisplay,
                 listCalls, getCalls, issued>>
  /\ UNCHANGED <<profileForm, createCalls>>
  /\ UNCHANGED health

\* handleSend after the await rejected: catch branch, then finally
AnalyzeFails(c, error) ==
  /\ c \in analyzeCalls
  /\ c.by # "display"
  /\ analyzeCalls' = analyzeCalls \ {c}
  /\ analysisChat' = IF c.live
                     THEN Settled(analysisChat, ErrorMessage(error, c.id))
                     ELSE analysisChat
  /\ event' = IF c.live THEN Event("handleSend.catch", "applied", error) ELSE Ignored
  /\ alert' = NoAlert
  /\ UNCHANGED <<view, selectedProfile, profileList, profileDisplay,
                 listCalls, getCalls, issued>>
  /\ UNCHANGED <<profileForm, createCalls>>
  /\ UNCHANGED health

(***************************************************************************)
(* ProfileForm                                                             *)
(***************************************************************************)
FormUnchanged ==
  UNCHANGED <<view, selectedProfile, profileList, profileDisplay, analysisChat,
              listCalls, getCalls, analyzeCalls, createCalls, issued>>

\* name input onChange
setName(v) ==
  /\ view = "create"
  /\ v # profileForm.formData.name
  /\ profileForm' = [profileForm EXCEPT !.formData.name = v]
  /\ event' = Event("setFormData", "done", Null)
  /\ alert' = NoAlert
  /\ FormUnchanged
  /\ UNCHANGED health

\* current role input onChange
setCurrentRole(v) ==
  /\ view = "create"
  /\ v # profileForm.formData.current_role
  /\ profileForm' = [profileForm EXCEPT !.formData.current_role = v]
  /\ event' = Event("setFormData", "done", Null)
  /\ alert' = NoAlert
  /\ FormUnchanged
  /\ UNCHANGED health

\* skill name input onChange
setNewSkill(v) ==
  /\ view = "create"
  /\ v # profileForm.newSkill.name
  /\ profileForm' = [profileForm EXCEPT !.newSkill.name = v]
  /\ event' = Event("setNewSkill", "done", Null)
  /\ alert' = NoAlert
  /\ FormUnchanged
  /\ UNCHANGED health

\* proficiency select onChange: setNewSkill({...newSkill, proficiency})
setNewSkillProficiency(v) ==
  /\ view = "create"
  /\ v # profileForm.newSkill.proficiency
  /\ profileForm' = [profileForm EXCEPT !.newSkill.proficiency = v]
  /\ event' = Event("setNewSkill", "done", Null)
  /\ alert' = NoAlert
  /\ FormUnchanged
  /\ UNCHANGED health

\* certification input onChange
setNewCert(v) ==
  /\ view = "create"
  /\ v # profileForm.newCert
  /\ profileForm' = [profileForm EXCEPT !.newCert = v]
  /\ event' = Event("setNewCert", "done", Null)
  /\ alert' = NoAlert
  /\ FormUnchanged
  /\ UNCHANGED health

\* "Add" button of the skills block
handleAddSkill ==
  /\ view = "create"
  /\ Len(AddSkill(profileForm).formData.skills) <= MaxItems
  /\ profileForm' = AddSkill(profileForm)
  /\ event' = Event("handleAddSkill", "done", Null)
  /\ alert' = NoAlert
  /\ FormUnchanged
  /\ UNCHANGED health

\* "Add" button of the certifications block, or Enter in its input
handleAddCert ==
  /\ view = "create"
  /\ Len(AddCert(profileForm).formData.certifications) <= MaxItems
  /\ profileForm' = AddCert(profileForm)
  /\ event' = Event("handleAddCert", "done", Null)
  /\ alert' = NoAlert
  /\ FormUnchanged
  /\ UNCHANGED health

\* remove button of skill number index
handleRemoveSkill(index) ==
  /\ view = "create"
  /\ index \in 1..Len(profileForm.formData.skills)
  /\ profileForm' = [profileForm EXCEPT !.formData.skills = RemoveAt(@, index)]
  /\ event' = Event("handleRemoveSkill", "done", [index |-> index])
  /\ alert' = NoAlert
  /\ FormUnchanged
  /\ UNCHANGED health

\* remove button of certification number index
handleRemoveCert(index) ==
  /\ view = "create"
  /\ index \in 1..Len(profileForm.formData.certifications)
  /\ profileForm' = [profileForm EXCEPT !.formData.certifications = RemoveAt(@, index)]
  /\ event' = Event("handleRemoveCert", "done", [index |-> index])
  /\ alert' = NoAlert
  /\ FormUnchanged
  /\ UNCHANGED health

\* handleSubmit up to its await.  The submit button is disabled={loading}; the
\* browser blocks the submit while a required field (name, current_role) is empty.
handleSubmit ==
  /\ view = "create"
  /\ ~profileForm.loading
  /\ profileForm.formData.name # <<>>
  /\ profileForm.formData.current_role # <<>>
  /\ profileForm' = [profileForm EXCEPT !.loading = TRUE, !.error = NoError]
  /\ createCalls' = createCalls \cup
       {[live |-> TRUE, request |-> ProfileData(profileForm.formData)]}
  /\ event' = Event("handleSubmit", "accepted", Null)
  /\ alert' = NoAlert
  /\ UNCHANGED <<view, selectedProfile, profileList, profileDisplay, analysisChat,
                 listCalls, getCalls, analyzeCalls, issued>>
  /\ UNCHANGED health

\* handleSubmit after the await resolved: onSuccess(result), that is
\* App.handleProfileCreated, then finally.  App stays mounted, so its setView
\* takes effect whether or not the form that submitted is still mounted.  The
\* view that is shown unmounts and ProfileList mounts, unless the list is shown
\* already.
CreateSucceeds(c) ==
  /\ c \in createCalls
  /\ view' = "list"
  /\ event' = Event("handleSubmit.then", IF c.live THEN "applied" ELSE "stale", Null)
  /\ alert' = NoAlert
  /\ IF view = "list"
     THEN /\ createCalls' = createCalls \ {c}
          /\ UNCHANGED <<profileList, profileDisplay, analysisChat, profileForm,
                         listCalls, getCalls, analyzeCalls, issued>>
     ELSE /\ createCalls' = Orphaned(createCalls \ {c})
          /\ profileDisplay' = ProfileDisplayInit
          /\ analysisChat' = AnalysisChatInit
          /\ profileForm' = ProfileFormInit
          /\ getCalls' = Unmounted(getCalls)
          /\ analyzeCalls' = OrphanedAnalyze(analyzeCalls)
          /\ profileList' = ProfileListInit
          /\ listCalls' = listCalls \cup {[live |-> TRUE, request |-> Null]}
          /\ issued' = 0
          /\ OrphansBounded
  /\ UNCHANGED selectedProfile
  /\ UNCHANGED health

\* handleSubmit after the await rejected: catch branch, then finally
CreateFails(c, err) ==
  /\ c \in createCalls
  /\ createCalls' = createCalls \ {c}
  /\ profileForm' = IF c.live
                    THEN [profileForm EXCEPT
                            !.error = ErrorText(err, <<"Failed to create profile">>),
                            !.loading = FALSE]
                    ELSE profileForm
  /\ event' = IF c.live THEN Event("handleSubmit.catch", "applied", err)
                       ELSE IgnoredCreate
  /\ alert' = NoAlert
  /\ UNCHANGED <<view, selectedProfile, profileList, profileDisplay, analysisChat,
                 listCalls, getCalls, analyzeCalls, issued>>
  /\ UNCHANGED health

(***************************************************************************)
(* App: connectivity probe (App.jsx 11-24, 68-77)                          *)
(***************************************************************************)
\* mutant: the probe is sent again when it failed
HealthFailsRetries ==
  /\ healthCalls > 0
  /\ healthCalls' = healthCalls
  /\ apiStatus' = "disconnected"
  /\ event' = Event("checkApiHealth.catch", "applied", Null)
  /\ alert' = NoAlert
  /\ UNCHANGED <<view, selectedProfile, profileList, profileDisplay, analysisChat,
                 profileForm, listCalls, getCalls, analyzeCalls, createCalls,
                 issued>>

\* checkApiHealth after the await resolved: setApiStatus('connected')
HealthSucceeds ==
  /\ healthCalls > 0
  /\ healthCalls' = healthCalls - 1
  /\ apiStatus' = "connected"
  /\ event' = Event("checkApiHealth.then", "applied", Null)
  /\ alert' = NoAlert
  /\ UNCHANGED <<view, selectedProfile, profileList, profileDisplay, analysisChat,
                 profileForm, listCalls, getCalls, analyzeCalls, createCalls,
                 issued>>

\* checkApiHealth after the await rejected: setApiStatus('disconnected')
HealthFails ==
  /\ healthCalls > 0
  /\ healthCalls' = healthCalls - 1
  /\ apiStatus' = "disconnected"
  /\ event' = Event("checkApiHealth.catch", "applied", Null)
  /\ alert' = NoAlert
  /\ UNCHANGED <<view, selectedProfile, profileList, profileDisplay, analysisChat,
                 profileForm, listCalls, getCalls, analyzeCalls, createCalls,
                 issued>>

\* mutant: the indicator is green unless the probe failed
IndicatorGreenWhileChecking(status) ==
  IF status # "disconnected" THEN "Connected" ELSE "Disconnected"

\* the text of the status indicator in the header
Indicator(status) == IF status = "connected" THEN "Connected" ELSE "Disconnected"

(***************************************************************************)
(* Specification                                                           *)
(***************************************************************************)
\* what a call can be answered with; the answer to a call whose component is
\* unmounted is never read, so one answer stands for all
Answers(c, X) == IF c.live THEN X ELSE {CHOOSE x \in X : TRUE}

\* the item fields of the form: skill name, certification, and the two lists
ItemsNext ==
  \/ \E v \in TypedItems : setNewSkill(v)
  \/ \E v \in TypedItems : setNewCert(v)
  \/ handleAddSkill
  \/ handleAddCert
  \/ \E index \in 1..MaxItems : handleRemoveSkill(index)
  \/ \E index \in 1..MaxItems : handleRemoveCert(index)

\* the list and the form: loading, navigation between list and form, submit
FormNext ==
  \/ \E c \in listCalls : \E data \in Answers(c, ProfileLists) : ListSucceeds(c, data)
  \/ \E c \in listCalls : \E err \in Answers(c, Errors) : ListFails(c, err)
  \/ handleCreateProfile
  \/ handleBackToList
  \/ \E v \in TypedNames : setName(v)
  \/ \E v \in TypedCurrentRoles : setCurrentRole(v)
  \/ handleSubmit
  \/ \E c \in createCalls : CreateSucceeds(c)
  \/ \E c \in createCalls : \E err \in Answers(c, Errors) : CreateFails(c, err)

\* the profile view and the chat
ProfileNext ==
  \/ \E i \in 1..MaxProfiles : SelectProfile(i)
  \/ \E c \in getCalls : \E data \in Answers(c, ProfileBodies) : GetSucceeds(c, data)
  \/ \E c \in getCalls : \E err \in Answers(c, Errors) : GetFails(c, err)
  \/ handleAnalyze
  \/ toggleAnalysis
  \/ \E v \in TypedRoles : setDisplayTargetRole(v)
  \/ \E v \in TypedQueries : setAnalysisQuery(v)
  \/ displayAnalyze
  \/ \E c \in analyzeCalls : \E response \in Reports : DisplayAnalyzeSucceeds(c, response)
  \/ \E c \in analyzeCalls : \E err \in Errors : DisplayAnalyzeFails(c, err)
  \/ \E title \in Titles : handleShowSkills(title)
  \/ \E target \in CloseTargets : handleCloseModal(target)
  \/ clickModalContent
  \/ \E v \in Typed : setInput(v)
  \/ \E v \in TypedRoles : setTargetRole(v)
  \/ handleSend
  \/ \E c \in analyzeCalls : \E response \in Answers(c, Reports) : AnalyzeSucceeds(c, response)
  \/ \E c \in analyzeCalls : \E error \in Answers(c, Errors) : AnalyzeFails(c, error)

\* the connectivity probe settles
HealthNext ==
  \/ HealthSucceeds
  \/ HealthFails

Next == FormNext \/ ProfileNext \/ ItemsNext \/ HealthNext

Spec == Init /\ [][Next]_vars

\* The item handlers write newSkill, newCert, formData.skills and
\* formData.certifications only, and nothing but ProfileData reads these
\* fields, whose value no action reads.  Spec is therefore checked as its two
\* projections: AppSpec leaves the item fields alone, FormSpec leaves the
\* profile view and the chat alone.
AppSpec == Init /\ [][FormNext \/ ProfileNext]_vars

FormSpec == Init /\ [][FormNext \/ ItemsNext]_vars

\* the way from the start to the form
OpenFormNext ==
  \/ \E c \in listCalls : \E data \in Answers(c, ProfileLists) : ListSucceeds(c, data)
  \/ \E c \in listCalls : \E err \in Answers(c, Errors) : ListFails(c, err)
  \/ handleCreateProfile

\* the item fields of the form with entries that differ
EntriesNext ==
  \/ \E v \in TypedEntries : setNewSkill(v)
  \/ \E v \in Proficiencies : setNewSkillProficiency(v)
  \/ \E v \in TypedEntries : setNewCert(v)
  \/ handleAddSkill
  \/ handleAddCert
  \/ \E index \in 1..MaxItems : handleRemoveSkill(index)
  \/ \E index \in 1..MaxItems : handleRemoveCert(index)

\* ItemsSpec opens the form and edits its two lists, with two entries that
\* differ and both values of the proficiency select.
ItemsSpec == Init /\ [][OpenFormNext \/ EntriesNext]_vars

\* The probe writes apiStatus and healthCalls only, and no other action reads
\* or writes them: HealthSpec runs the probe next to the list, the form, the
\* profile view and the chat.
HealthSpec == Init /\ [][FormNext \/ ProfileNext \/ HealthNext]_vars

\* the awaited analyze call of the mounted chat session settles
SettleLive ==
  \E c \in analyzeCalls :
    /\ c.live
    /\ \/ \E response \in Reports : AnalyzeSucceeds(c, response)
       \/ \E error \in Errors : AnalyzeFails(c, error)

FairSpec == AppSpec /\ WF_vars(SettleLive)

(***************************************************************************)
(* Properties                                                              *)
(***************************************************************************)
\* the analyze calls awaited by the mounted chat session
LiveAnalyzeCalls == {c \in analyzeCalls : c.live /\ c.by = "chat"}

IsPrefix(s, t) == Len(s) <= Len(t) /\ SubSeq(t, 1, Len(s)) = s

Last(s) == s[Len(s)]

\* the step is an accepted submit: handleSend ran and its guard passed
AcceptedSubmit ==
  /\ event'.name = "handleSend"
  /\ ~IsBlank(analysisChat.input)
  /\ ~IsBlank(analysisChat.targetRole)
  /\ ~analysisChat.loading

\* C1: the busy flag of the chat session is true exactly while one analyze
\* request issued by that session has not settled: busy implies exactly one
\* unsettled request, and not busy implies none.
C1_BusyWhileOneRequestUnsettled ==
  Cardinality(LiveAnalyzeCalls) = IF analysisChat.loading THEN 1 ELSE 0

\* a second request of one session is in flight, after the first one settled
C1_Witness ==
  /\ analysisChat.loading
  /\ Len(analysisChat.messages) = 3
  /\ Cardinality(LiveAnalyzeCalls) = 1

\* C2: once busy, the session eventually is not busy again (given that the
\* awaited analyze call settles), and both the success and the failure
\* continuation end with busy false.
C2_BusyEventuallyClears ==
  /\ analysisChat.loading ~> ~analysisChat.loading
  /\ [][event'.name \in {"handleSend.then", "handleSend.catch"}
          => ~analysisChat'.loading]_vars

\* the failure path has run and left busy false
C2_Witness ==
  /\ event.name = "handleSend.catch"
  /\ ~analysisChat.loading
  /\ Last(analysisChat.messages).type = "error"

\* C3: a chat session has at most one analyze request outstanding, and a
\* submit attempted while busy appends no message, issues no request and
\* leaves input buffer and busy flag as they were.
C3_OneRequestPerSession ==
  /\ [](Cardinality(LiveAnalyzeCalls) <= 1)
  /\ [][event'.name = "handleSend" /\ analysisChat.loading
          => UNCHANGED <<analysisChat, analyzeCalls, issued>>]_vars

\* a submit was attempted while a request was outstanding, with a target role
C3_Witness ==
  /\ event = Event("handleSend", "rejected", Null)
  /\ analysisChat.loading
  /\ ~IsBlank(analysisChat.targetRole)

\* C4: a submit whose query or target role is empty or whitespace-only changes
\* nothing: no request, no message, busy and input buffer as before.
C4_BlankSubmitIsNoOp ==
  [][event'.name = "handleSend"
       /\ (IsBlank(analysisChat.input) \/ IsBlank(analysisChat.targetRole))
       => UNCHANGED <<analysisChat, analyzeCalls, issued>>]_vars

\* a typed query was submitted with a whitespace-only target role
C4_Witness ==
  /\ event = Event("handleSend", "rejected", Null)
  /\ ~analysisChat.loading
  /\ analysisChat.input = <<" ", "q">>
  /\ analysisChat.targetRole = <<" ">>

\* C5: an accepted submit, in one step, appends a user message with the query
\* as typed, sets busy, clears the input buffer and issues exactly one request
\* carrying the query and the target role of that moment; editing the target
\* role afterwards leaves the outstanding requests as they are.
C5_AcceptedSubmit ==
  /\ [][AcceptedSubmit =>
          /\ Len(analysisChat'.messages) = Len(analysisChat.messages) + 1
          /\ IsPrefix(analysisChat.messages, analysisChat'.messages)
          /\ Last(analysisChat'.messages).type = "user"
          /\ Last(analysisChat'.messages).content = analysisChat.input
          /\ analysisChat'.loading
          /\ analysisChat'.input = <<>>
          /\ analysisChat'.targetRole = analysisChat.targetRole
          /\ issued' = issued + 1
          /\ \E c \in analyzeCalls' \ analyzeCalls :
               /\ analyzeCalls' = analyzeCalls \cup {c}
               /\ c.live
               /\ c.request.user_query = analysisChat.input
               /\ c.request.target_role.role_name = analysisChat.targetRole]_vars
  /\ [][event'.name = "setTargetRole" => analyzeCalls' = analyzeCalls]_vars

\* a padded query is in flight and the target role field was edited since
C5_Witness ==
  /\ event.name = "setTargetRole"
  /\ \E c \in LiveAnalyzeCalls :
       /\ c.request.user_query = <<" ", "q">>
       /\ c.request.target_role.role_name = <<"r">>
       /\ analysisChat.targetRole = <<" ">>

\* C6: every assistant or error message of the log has the user message of
\* the same analyze call at a strictly smaller index.
C6_UserMessagePrecedesResponse ==
  \A j \in DOMAIN analysisChat.messages :
    analysisChat.messages[j].type # "user" =>
      \E i \in 1..(j - 1) :
        /\ analysisChat.messages[i].type = "user"
        /\ analysisChat.messages[i].call = analysisChat.messages[j].call

\* two exchanges, one failed and one succeeded
C6_Witness ==
  /\ Len(analysisChat.messages) = 4
  /\ analysisChat.messages[2].type = "error"
  /\ analysisChat.messages[4].type = "assistant"

\* C7: while a chat session lasts, every step leaves the previous log as a
\* prefix of the new one and appends at most one message.
C7_LogAppendOnly ==
  [][view = "chat" /\ view' = "chat" =>
       /\ IsPrefix(analysisChat.messages, analysisChat'.messages)
       /\ Len(analysisChat'.messages) <= Len(analysisChat.messages) + 1]_vars

\* a submit was appended to a log that already held an exchange
C7_Witness ==
  /\ event = Event("handleSend", "accepted", Null)
  /\ Len(analysisChat.messages) = 3

\* the text the success path shows for a report
SummaryOrFallback(report) ==
  IF report.analysis_summary.def /\ report.analysis_summary.str # <<>>
  THEN report.analysis_summary.str
  ELSE <<"Analysis completed">>

\* C8 as stated: a success appends one assistant message whose text is the
\* report's analysis_summary when that is present and the fallback otherwise.
C8_AsStated ==
  event.name = "handleSend.then" =>
    /\ Last(analysisChat.messages).type = "assistant"
    /\ Last(analysisChat.messages).report = event.arg
    /\ Last(analysisChat.messages).content =
         IF event.arg.analysis_summary.def
         THEN event.arg.analysis_summary.str
         ELSE <<"Analysis completed">>

\* C8 (amended): a success appends exactly one message, of kind assistant,
\* with the returned report attached; its text is the report's
\* analysis_summary when that is present and not empty, and the fallback
\* 'Analysis completed' otherwise.
C8_AssistantMessage ==
  [][event'.name = "handleSend.then" =>
       /\ Len(analysisChat'.messages) = Len(analysisChat.messages) + 1
       /\ IsPrefix(analysisChat.messages, analysisChat'.messages)
       /\ Last(analysisChat'.messages).type = "assistant"
       /\ Last(analysisChat'.messages).report = event'.arg
       /\ Last(analysisChat'.messages).content = SummaryOrFallback(event'.arg)]_vars

\* a report without analysis_summary was answered with the fallback text
C8_Witness ==
  /\ event.name = "handleSend.then"
  /\ event.outcome = "applied"
  /\ event.arg.analysis_summary = Undefined
  /\ Last(analysisChat.messages).content = <<"Analysis completed">>

\* the text the failure path shows for a rejection
FailureText(error) ==
  IF error.detail.def /\ error.detail.str # <<>> THEN error.detail.str
  ELSE IF error.message.def /\ error.message.str # <<>> THEN error.message.str
  ELSE <<"Failed to analyze skills">>

\* C9 as stated: the text of the error message is the payload's detail if
\* present, else the raw error message if present, else the generic fallback.
C9_AsStated ==
  event.name = "handleSend.catch" =>
    /\ Last(analysisChat.messages).type = "error"
    /\ Last(analysisChat.messages).content =
         IF event.arg.detail.def THEN event.arg.detail.str
         ELSE IF event.arg.message.def THEN event.arg.message.str
         ELSE <<"Failed to analyze skills">>

\* C9 (amended): a failure appends exactly one message, of kind error, whose
\* text is the payload's detail if present and not empty, else the raw error
\* message if present and not empty, else 'Failed to analyze skills'.
C9_ErrorMessage ==
  [][event'.name = "handleSend.catch" =>
       /\ Len(analysisChat'.messages) = Len(analysisChat.messages) + 1
       /\ IsPrefix(analysisChat.messages, analysisChat'.messages)
       /\ Last(analysisChat'.messages).type = "error"
       /\ Last(analysisChat'.messages).report = Null
       /\ Last(analysisChat'.messages).content = FailureText(event'.arg)]_vars

\* a rejection with detail "profile not found" and a raw message as well
C9_Witness ==
  /\ event.name = "handleSend.catch"
  /\ event.arg.detail = S(<<"profile not found">>)
  /\ event.arg.message = S(<<"Network Error">>)
  /\ Last(analysisChat.messages).content = <<"profile not found">>

\* the id of a listed record: its id, or its profile_id when it has no id
RecordId(profile) ==
  IF profile.id.def /\ profile.id.str # <<>> THEN profile.id ELSE profile.profile_id

\* C10: a selection in the list either opens the profile view with the
\* record's non-empty id, or is refused: the view stays list, no profile
\* becomes selected and an alert is raised.  The profile view never holds an
\* unresolved id.
C10_SelectionGuard ==
  /\ [](view = "profile" =>
          /\ selectedProfile # Null
          /\ selectedProfile.id.def
          /\ selectedProfile.id.str # <<>>
          /\ ProfileIdProp(selectedProfile) = selectedProfile.id)
  /\ [][event'.name = "selectProfile" =>
          LET profile == profileList.profiles[event'.arg.i]
          IN \/ /\ view' = "profile"
                /\ selectedProfile'.id = RecordId(profile)
                /\ selectedProfile'.id.str # <<>>
                /\ selectedProfile'.profile_id = profile.profile_id
             \/ /\ view' = "list"
                /\ selectedProfile' = selectedProfile
                /\ alert' # NoAlert
                /\ UNCHANGED <<profileList, profileDisplay, getCalls>>]_vars

\* a record whose id is the empty string and that has no profile_id was refused
C10_Witness ==
  /\ event.name = "selectProfile"
  /\ event.outcome = "refused"
  /\ profileList.profiles[event.arg.i] = [id |-> S(<<>>), profile_id |-> Undefined]
  /\ view = "list"
  /\ alert # NoAlert

(***************************************************************************)
(* Resolved profile id (App.jsx 47-50, AnalysisChat.jsx 36-45, 590-597)    *)
(***************************************************************************)
\* C11: in every reachable state the profile held by the profile view or by
\* the chat carries a non-empty id, and every analysis request the chat has
\* in flight carries a non-empty user_profile_id, whatever getProfile returned.
C11_AsStated ==
  /\ view \in {"profile", "chat"} =>
       /\ selectedProfile # Null
       /\ Truthy(selectedProfile.id)
  /\ \A c \in LiveAnalyzeCalls : Truthy(c.request.user_profile_id)

(***************************************************************************)
(* View router (App.jsx 9-55, 93-121)                                      *)
(***************************************************************************)
\* C12: the initial view is list, and every change of the view is one of:
\* list -> create on 'create new'; create -> list on create success or cancel;
\* list -> profile on a guarded selection; profile -> chat on 'analyze';
\* any view but list -> list on 'back'.  No other view change occurs.
C12_AsStated ==
  /\ view = "list"
  /\ [][view' # view =>
          \/ /\ view = "list" /\ view' = "create"
             /\ event'.name = "handleCreateProfile"
          \/ /\ view = "create" /\ view' = "list"
             /\ event'.name \in {"handleSubmit.then", "handleBackToList"}
          \/ /\ view = "list" /\ view' = "profile"
             /\ event'.name = "selectProfile"
             /\ event'.outcome = "selected"
          \/ /\ view = "profile" /\ view' = "chat"
             /\ event'.name = "handleAnalyze"
          \/ /\ view # "list" /\ view' = "list"
             /\ event'.name = "handleBackToList"]_vars

(***************************************************************************)
(* Navigation discards the exited view (App.jsx 52-55)                     *)
(***************************************************************************)
\* no call is awaited by a mounted component
NoLiveCalls(calls) == \A c \in calls : ~c.live

\* C13: 'back' from any view but the list moves to the list, clears the
\* selected profile and discards the state of the exited view; a view entered
\* afterwards starts from its initial state (chat: empty log, not busy, empty
\* input and target role; profile view: no analysis result or error, not
\* analyzing, modal closed) and awaits no request of an earlier view.
C13_BackDiscardsViewState ==
  /\ [][event'.name = "handleBackToList" =>
          /\ view # "list"
          /\ view' = "list"
          /\ selectedProfile' = Null
          /\ analysisChat'.messages = <<>>
          /\ profileDisplay'.analysisResult = Null
          /\ NoLiveCalls(getCalls')
          /\ NoLiveCalls(analyzeCalls')
          /\ NoLiveCalls(createCalls')]_vars
  /\ [][view' = "chat" /\ view # "chat" =>
          /\ analysisChat'.messages = <<>>
          /\ analysisChat'.loading = FALSE
          /\ analysisChat'.input = <<>>
          /\ analysisChat'.targetRole = <<>>
          /\ NoLiveCalls(analyzeCalls')]_vars
  /\ [][view' = "profile" /\ view # "profile" =>
          /\ profileDisplay'.profile = Null
          /\ profileDisplay'.analysisResult = Null
          /\ profileDisplay'.analysisError = NoError
          /\ profileDisplay'.analyzing = FALSE
          /\ profileDisplay'.showSkillsModal = FALSE
          /\ profileDisplay'.modalSkills = <<>>
          /\ profileDisplay'.modalTitle = <<>>
          /\ NoLiveCalls(analyzeCalls')]_vars

\* a chat was left by 'back' while its request was pending, and the chat
\* entered afterwards is in its initial state
C13_Witness ==
  /\ view = "chat"
  /\ event.name = "handleAnalyze"
  /\ analysisChat = AnalysisChatInit
  /\ selectedProfile # Null
  /\ Dead(analyzeCalls) # {}

(***************************************************************************)
(* Late responses (AnalysisChat.jsx 47-66, 475-502, 524-556)               *)
(***************************************************************************)
\* the components' state and the router's
Shown == <<view, selectedProfile, profileList, profileDisplay, analysisChat,
           profileForm>>

\* C14: a getProfile response that arrives after the user went back and
\* opened another profile changes nothing in the view that is shown: only the
\* call the mounted profile view awaits, made for the selected profile's id,
\* is applied to it.
C14_LateProfileResponseIgnored ==
  /\ [](\A c \in getCalls :
          c.live => /\ view = "profile"
                    /\ profileDisplay.loading
                    /\ c.request = ProfileIdProp(selectedProfile))
  /\ [](Cardinality({c \in getCalls : c.live}) <= 1)
  /\ [][\A c \in getCalls :
          ~c.live /\ c \notin getCalls' => UNCHANGED Shown]_vars
  /\ [][profileDisplay'.profile # profileDisplay.profile
          /\ profileDisplay'.profile # Null
          => \E c \in getCalls :
               /\ c.live
               /\ c.request = ProfileIdProp(selectedProfile)
               /\ getCalls' = getCalls \ {c}]_vars

\* the response for profile 1 arrived while the view of profile 2, opened
\* after 'back', was loading, and the view still awaits its own call
C14_Witness ==
  /\ event = Event("unmounted", "ignored", [profileId |-> S(<<"1">>)])
  /\ view = "profile"
  /\ ProfileIdProp(selectedProfile) = S(<<"2">>)
  /\ profileDisplay = ProfileDisplayInit
  /\ getCalls = {[live |-> TRUE, request |-> S(<<"2">>)]}

\* C15: an analyze request that is outstanding when the user navigates away
\* is not cancelled, and its late response is discarded: it appends no message
\* to a newer chat log, leaves a newer busy flag alone and sets no analysis
\* result or error in a newer profile view.
C15_LateAnalysisDiscarded ==
  /\ [](\A c \in analyzeCalls :
          /\ c.by = "chat" => c.live /\ view = "chat" /\ analysisChat.loading
          /\ c.by = "display" => c.live /\ view = "profile" /\ profileDisplay.analyzing
          /\ c.by = "unmounted" => ~c.live)
  /\ [][view' # view /\ (\E c \in analyzeCalls : c.live)
          => \E c \in analyzeCalls' : ~c.live]_vars
  /\ [][\A c \in analyzeCalls :
          ~c.live /\ c \notin analyzeCalls' => UNCHANGED Shown]_vars
  /\ [][\/ profileDisplay'.analysisResult \notin {Null, profileDisplay.analysisResult}
        \/ profileDisplay'.analysisError \notin {NoError, profileDisplay.analysisError}
          => \E c \in analyzeCalls :
               /\ c.live
               /\ c.by = "display"
               /\ analyzeCalls' = analyzeCalls \ {c}]_vars
  /\ [][Len(analysisChat'.messages) > Len(analysisChat.messages)
          => \/ event'.name = "handleSend"
             \/ \E c \in analyzeCalls :
                  /\ c.live
                  /\ c.by = "chat"
                  /\ analyzeCalls' = analyzeCalls \ {c}]_vars

\* the response to the request of a chat that was left arrived while a newer
\* chat awaited its own request: the newer log holds its user message only and
\* the newer chat is still busy
C15_Witness ==
  /\ event = Ignored
  /\ view = "chat"
  /\ analysisChat.loading
  /\ Len(analysisChat.messages) = 1
  /\ Cardinality(LiveAnalyzeCalls) = 1
  /\ Dead(analyzeCalls) = {}

\* the same in a newer profile view that is analyzing
C15_WitnessDisplay ==
  /\ event = Ignored
  /\ view = "profile"
  /\ profileDisplay.analyzing
  /\ profileDisplay.analysisResult = Null
  /\ Dead(analyzeCalls) = {}

(***************************************************************************)
(* Skills modal (AnalysisChat.jsx 558-572, 882-890)                        *)
(***************************************************************************)
\* the notice for each title, as the user reads it
NoticeFor(title) ==
  CASE title = SkillsMet ->
         <<"No ", "s", "k", "i", "l", "l", "s", " ", "m", "e", "t", " found.">>
    [] title = SkillsMissing ->
         <<"No ", "s", "k", "i", "l", "l", "s", " ", "m", "i", "s", "s", "i", "n", "g",
           " found.">>
    [] title = SkillsWeak ->
         <<"No ", "s", "k", "i", "l", "l", "s", " ", "w", "e", "a", "k", " found.">>

\* the list the button of the last handleShowSkills passed
PassedSkills == SkillsOf(profileDisplay.analysisResult, event'.arg.title)

\* C16: handleShowSkills with an empty or absent list does not open the modal:
\* it raises the notice 'No {title in lower case} found.' and leaves isOpen,
\* items and title as they were.
C16_EmptyListShowsNotice ==
  [][event'.name = "handleShowSkills"
       /\ (~PassedSkills.def \/ PassedSkills.items = <<>>)
       => /\ alert' = NoticeFor(event'.arg.title)
          /\ profileDisplay'.showSkillsModal = profileDisplay.showSkillsModal
          /\ profileDisplay'.modalSkills = profileDisplay.modalSkills
          /\ profileDisplay'.modalTitle = profileDisplay.modalTitle
          /\ UNCHANGED profileDisplay]_vars

\* 'Skills Missing' was clicked for a report whose skills_missing is empty
C16_Witness ==
  /\ event = Event("handleShowSkills", "refused", [title |-> SkillsMissing])
  /\ profileDisplay.analysisResult # Null
  /\ profileDisplay.analysisResult.skills_missing = List(<<>>)
  /\ ~profileDisplay.showSkillsModal
  /\ alert = NoticeFor(SkillsMissing)

\* the same for a report without skills_met
C16_WitnessAbsent ==
  /\ event = Event("handleShowSkills", "refused", [title |-> SkillsMet])
  /\ profileDisplay.analysisResult # Null
  /\ profileDisplay.analysisResult.skills_met = NoList
  /\ alert = NoticeFor(SkillsMet)

\* the three fields of the modal are reset
ModalReset(display) ==
  /\ display.showSkillsModal = FALSE
  /\ display.modalSkills = <<>>
  /\ display.modalTitle = <<>>

\* C17: handleCloseModal leaves exactly isOpen false, items empty and title
\* empty, from an open and from a closed modal alike, and closing twice is
\* closing once.
C17_CloseResetsModal ==
  /\ [](/\ ModalReset(CloseModal(profileDisplay))
        /\ CloseModal(CloseModal(profileDisplay)) = CloseModal(profileDisplay))
  /\ [][event'.name = "handleCloseModal" =>
          /\ ModalReset(profileDisplay')
          /\ profileDisplay' = CloseModal(profileDisplay)]_vars

\* the modal that showed the weak skills was closed
C17_Witness ==
  /\ event.name = "handleCloseModal"
  /\ profileDisplay.analysisResult # Null
  /\ profileDisplay.analysisResult.skills_weak.items # <<>>
  /\ ModalReset(profileDisplay)

\* C18: handleShowSkills with a non-empty list sets isOpen true, the items and
\* the title in one step: the modal is never open without its items and title,
\* and never closed with items or a title.
C18_OpenSetsAllFields ==
  /\ [][event'.name = "handleShowSkills"
          /\ PassedSkills.def /\ PassedSkills.items # <<>>
          => /\ profileDisplay'.showSkillsModal = TRUE
             /\ profileDisplay'.modalSkills = PassedSkills.items
             /\ profileDisplay'.modalTitle = event'.arg.title
             /\ alert' = NoAlert]_vars
  /\ [](IF profileDisplay.showSkillsModal
        THEN profileDisplay.modalSkills # <<>> /\ profileDisplay.modalTitle \in Titles
        ELSE profileDisplay.modalSkills = <<>> /\ profileDisplay.modalTitle = <<>>)

\* the modal was opened with the two skills that are met
C18_Witness ==
  /\ event = Event("handleShowSkills", "opened", [title |-> SkillsMet])
  /\ profileDisplay.showSkillsModal
  /\ profileDisplay.modalSkills = <<Skill("git"), Skill("css")>>
  /\ profileDisplay.modalTitle = SkillsMet

\* C19: a click on the backdrop closes the modal, resetting its three fields;
\* a click inside the content does not reach the backdrop's handler and
\* leaves the state unchanged.
C19_BackdropClosesContentDoesNot ==
  /\ [][event'.name = "handleCloseModal" /\ event'.arg.target = "backdrop" =>
          /\ profileDisplay.showSkillsModal
          /\ ~profileDisplay'.showSkillsModal
          /\ profileDisplay'.modalSkills = <<>>
          /\ profileDisplay'.modalTitle = <<>>]_vars
  /\ [][event'.name = "clickModalContent" =>
          /\ profileDisplay.showSkillsModal
          /\ UNCHANGED <<Shown, listCalls, getCalls, analyzeCalls, createCalls>>]_vars

\* the content of the open modal was clicked and the modal is still open
C19_Witness ==
  /\ event.name = "clickModalContent"
  /\ profileDisplay.showSkillsModal
  /\ profileDisplay.modalSkills # <<>>
  /\ profileDisplay.modalTitle = SkillsWeak

\* the backdrop of the open modal was clicked
C19_WitnessBackdrop ==
  /\ event = Event("handleCloseModal", "done", [target |-> "backdrop"])
  /\ ModalReset(profileDisplay)

(***************************************************************************)
(* ProfileForm: skills and certifications (AnalysisChat.jsx 221-246)       *)
(***************************************************************************)
\* the text is empty or consists of spaces only
OnlySpaces(text) == \A i \in 1..Len(text) : text[i] = " "

\* C20: adding a skill whose name is blank or whitespace-only, or a blank or
\* whitespace-only certification, leaves the skills list and the
\* certifications list unchanged, however often it is repeated.
C20_BlankItemNotAdded ==
  /\ [][event'.name = "handleAddSkill" /\ OnlySpaces(profileForm.newSkill.name) =>
          /\ profileForm'.formData.skills = profileForm.formData.skills
          /\ profileForm'.formData.certifications = profileForm.formData.certifications
          /\ UNCHANGED profileForm]_vars
  /\ [][event'.name = "handleAddCert" /\ OnlySpaces(profileForm.newCert) =>
          /\ profileForm'.formData.skills = profileForm.formData.skills
          /\ profileForm'.formData.certifications = profileForm.formData.certifications
          /\ UNCHANGED profileForm]_vars
  /\ [](\A i \in 1..Len(profileForm.formData.skills) :
          ~OnlySpaces(profileForm.formData.skills[i].name))
  /\ [](\A i \in 1..Len(profileForm.formData.certifications) :
          ~OnlySpaces(profileForm.formData.certifications[i]))

\* 'Add' was clicked with a whitespace-only skill name, and the list holds the
\* one skill it held before
C20_Witness ==
  /\ event.name = "handleAddSkill"
  /\ profileForm.newSkill.name = <<" ">>
  /\ Len(profileForm.formData.skills) = 1
  /\ profileForm.formData.skills[1].name = <<"s">>

\* the same for an empty certification
C20_WitnessCert ==
  /\ event.name = "handleAddCert"
  /\ profileForm.newCert = <<>>
  /\ profileForm.formData.certifications = <<<<"s">>>>

(***************************************************************************)
(* Target role of a request (AnalysisChat.jsx 20-45, 524-546, 700-703)     *)
(***************************************************************************)
\* the analyze calls the last step issued
IssuedCalls == {c \in analyzeCalls' : c.live /\ c \notin analyzeCalls}

\* C21: every analysis request that is issued, by the chat or by the analysis
\* panel of the profile view, carries a non-empty target_role.role_name.
C21_RoleNameNonEmpty ==
  /\ [][\A c \in IssuedCalls : Len(c.request.target_role.role_name) > 0]_vars
  /\ [](\A c \in analyzeCalls :
          c.live => c.request.target_role.role_name # <<>>)

\* a request of the chat is in flight
C21_Witness ==
  /\ view = "chat"
  /\ event.name = "handleSend"
  /\ \E c \in analyzeCalls :
       c.live /\ c.by = "chat" /\ c.request.target_role.role_name = <<"r">>

\* the same for the panel of the profile view
C21_WitnessDisplay ==
  /\ view = "profile"
  /\ event.name = "displayAnalyze"
  /\ \E c \in analyzeCalls :
       c.live /\ c.by = "display" /\ c.request.target_role.role_name = <<"r">>

(***************************************************************************)
(* ProfileForm: submit (AnalysisChat.jsx 255-279, 291-298; App.jsx 30-33)  *)
(***************************************************************************)
\* C22: a submit of the form with a missing or whitespace-only name is caught
\* before any network call: no createProfile request is issued for it and the
\* view stays create.
C22_AsStated ==
  /\ [](\A c \in createCalls : c.live => ~OnlySpaces(c.request.name))
  /\ [][OnlySpaces(profileForm.formData.name) /\ view = "create" /\ view' = "create"
          => \A c \in createCalls' : c.live => c \in createCalls]_vars

(***************************************************************************)
(* Failures (part_000 13-40; App.jsx 78-98; AnalysisChat.jsx 255-279,      *)
(* 484-502, 551-555)                                                       *)
(***************************************************************************)
\* the header's 'Back to Profiles' button is rendered
BackRendered == view # "list"

\* a state the user can leave: a control that leads to the list with its
\* 'create new' and select actions is rendered, or the list is still loading
CanReachList == BackRendered \/ ListShown \/ (view = "list" /\ profileList.loading)

\* C23: no state is terminal: in every reachable state, also after a failed
\* listProfiles, getProfile, createProfile or analyze call, the error is shown
\* in the view the call came from and a user action remains enabled from which
\* the list with its 'create new' and select actions can be reached again.
C23_AsStated ==
  /\ CanReachList
  /\ view = "list" /\ Truthy(profileList.error) => ENABLED handleCreateProfile

\* the busy flag of each mounted component, with the calls it guards
BusyFlags ==
  <<[flag |-> view = "list" /\ profileList.loading, calls |-> listCalls],
    [flag |-> view = "profile" /\ profileDisplay.loading, calls |-> getCalls],
    [flag |-> view = "profile" /\ profileDisplay.analyzing,
     calls |-> {c \in analyzeCalls : c.by = "display"}],
    [flag |-> view = "create" /\ profileForm.loading, calls |-> createCalls],
    [flag |-> view = "chat" /\ analysisChat.loading,
     calls |-> {c \in analyzeCalls : c.by = "chat"}]>>

\* C24: every busy flag (ProfileList.loading, ProfileDisplay.loading,
\* ProfileDisplay.analyzing, ProfileForm.loading, AnalysisChat.loading) is
\* false once the call it guards has settled with a failure: after the catch
\* branch of a call has run the flag is false, and a flag is set only while a
\* call of its component is still in flight.
C24_FlagsClearedOnFailure ==
  /\ event = Event("loadProfiles.catch", "applied", Null) => ~profileList.loading
  /\ event = Event("loadProfile.catch", "applied", Null) => ~profileDisplay.loading
  /\ event = Event("displayAnalyze.catch", "applied", Null) => ~profileDisplay.analyzing
  /\ event.name = "handleSubmit.catch" /\ event.outcome = "applied"
       => ~profileForm.loading
  /\ event.name = "handleSend.catch" /\ event.outcome = "applied"
       => ~analysisChat.loading
  /\ \A i \in DOMAIN BusyFlags :
       BusyFlags[i].flag => \E c \in BusyFlags[i].calls : c.live

C24_Witness ==
  /\ event.name = "handleSend.catch" /\ event.outcome = "applied"
  /\ view = "chat" /\ ~analysisChat.loading
  /\ Len(analysisChat.messages) = 2

C24_WitnessForm ==
  /\ event.name = "handleSubmit.catch" /\ event.outcome = "applied"
  /\ view = "create" /\ ~profileForm.loading /\ Truthy(profileForm.error)

C24_WitnessDisplay ==
  /\ event = Event("displayAnalyze.catch", "applied", Null)
  /\ ~profileDisplay.analyzing /\ Truthy(profileDisplay.analysisError)

C24_WitnessLoad ==
  /\ event = Event("loadProfile.catch", "applied", Null)
  /\ ~profileDisplay.loading /\ Truthy(profileDisplay.error)

\* the calls of a set that are awaited by a mounted component
LiveOf(calls) == {c \in calls : c.live}

\* the step issued a request into the set
Issues(calls, calls2) == \E c \in LiveOf(calls2) : c \notin calls

\* the step only took settled requests out of the set
OnlySettles(calls, calls2) == calls2 \subseteq calls /\ calls2 # calls

\* the events of the catch branches
CatchEvents ==
  {"loadProfiles.catch", "loadProfile.catch", "displayAnalyze.catch",
   "handleSend.catch", "handleSubmit.catch"}

\* the number of user messages in a chat log
RECURSIVE UserMessages(_)
UserMessages(messages) ==
  IF messages = <<>> THEN 0
  ELSE (IF Head(messages).type = "user" THEN 1 ELSE 0) + UserMessages(Tail(messages))

\* C25: there are no automatic retries: the step in which an analyze,
\* getProfile, listProfiles or createProfile call fails issues no request, and
\* a request of a kind is issued only by the user action that asks for it (the
\* list also by the mount that follows a created profile); in a chat session
\* the number of analyze requests issued equals the number of accepted submits.
C25_NoAutomaticRetry ==
  /\ [][event'.name \in CatchEvents =>
          /\ ~Issues(listCalls, listCalls') /\ ~Issues(getCalls, getCalls')
          /\ ~Issues(analyzeCalls, analyzeCalls')
          /\ ~Issues(createCalls, createCalls')
          /\ event'.name = "loadProfiles.catch" => OnlySettles(listCalls, listCalls')
          /\ event'.name = "loadProfile.catch" => OnlySettles(getCalls, getCalls')
          /\ event'.name \in {"displayAnalyze.catch", "handleSend.catch"}
               => OnlySettles(analyzeCalls, analyzeCalls')
          /\ event'.name = "handleSubmit.catch"
               => OnlySettles(createCalls, createCalls')]_vars
  /\ [][/\ Issues(listCalls, listCalls')
             => event'.name \in {"handleBackToList", "handleSubmit.then"}
        /\ Issues(getCalls, getCalls') => event'.name = "selectProfile"
        /\ Issues(analyzeCalls, analyzeCalls')
             => event' \in {Event("handleSend", "accepted", Null),
                            Event("displayAnalyze", "accepted", Null)}
        /\ Issues(createCalls, createCalls')
             => event' = Event("handleSubmit", "accepted", Null)]_vars
  /\ [](view = "chat" => UserMessages(analysisChat.messages) = issued)

\* a chat request failed, the user sent the query again, and it failed again
C25_Witness ==
  /\ view = "chat"
  /\ event.name = "handleSend.catch" /\ event.outcome = "applied"
  /\ issued = 2 /\ UserMessages(analysisChat.messages) = 2
  /\ Len(analysisChat.messages) = 4
  /\ analyzeCalls = {}

(***************************************************************************)
(* Connectivity probe (App.jsx 11-24, 68-77)                               *)
(***************************************************************************)
\* C26: the connectivity probe is one-shot: one healthCheck call is issued at
\* start and none afterwards, whatever navigation, failure or other event
\* follows; the status leaves 'checking' at most once, to 'connected' when the
\* probe succeeded and to 'disconnected' when it failed, and never changes
\* afterwards; the indicator shows 'Connected' only when the status is
\* 'connected'.
C26_ProbeOneShot ==
  /\ [](apiStatus \in {"checking", "connected", "disconnected"})
  /\ [](healthCalls = IF apiStatus = "checking" THEN 1 ELSE 0)
  /\ [][healthCalls' <= healthCalls]_vars
  /\ [][apiStatus # "checking" => apiStatus' = apiStatus]_vars
  /\ [][apiStatus' # apiStatus =>
          \/ event'.name = "checkApiHealth.then" /\ apiStatus' = "connected"
          \/ event'.name = "checkApiHealth.catch" /\ apiStatus' = "disconnected"]_vars
  /\ [](Indicator(apiStatus) = "Connected" => apiStatus = "connected")

\* the probe failed, and the user has since opened a profile and its chat
C26_Witness ==
  /\ apiStatus = "disconnected" /\ healthCalls = 0
  /\ view = "chat"
  /\ Indicator(apiStatus) = "Disconnected"

C26_WitnessConnected ==
  /\ apiStatus = "connected" /\ healthCalls = 0
  /\ view = "create" /\ Truthy(profileForm.error)
  /\ Indicator(apiStatus) = "Connected"

(***************************************************************************)
(* Report figures (AnalysisChat.jsx 138-155, 745-789, 799-875)             *)
(***************************************************************************)
\* the length of a list of the report, 0 when the list is absent
Count(list) == IF list = NoList THEN 0 ELSE Len(list.items)

\* the figures of a report as stated: the three counts, and the score with two
\* decimals or, when the report has none, a placeholder
FiguresAsStated(report, figures) ==
  /\ figures.met = Text(Digits(Count(report.skills_met)))
  /\ figures.missing = Text(Digits(Count(report.skills_missing)))
  /\ figures.weak = Text(Digits(Count(report.skills_weak)))
  /\ figures.gapScore.shown
  /\ report.overall_gap_score.def
       => /\ figures.gapScore.text = ToFixed2(report.overall_gap_score.milli)
          /\ Len(figures.gapScore.text) >= 4
          /\ figures.gapScore.text[Len(figures.gapScore.text) - 2] = "."
  /\ ~report.overall_gap_score.def
       => figures.gapScore.text \notin {<<>>, ToFixed2(0)}

\* the reports on display in the chat
ChatReports ==
  {analysisChat.messages[i].report : i \in DOMAIN analysisChat.messages} \ {Null}

\* C27: for every report, in the chat message view and in the dashboard view,
\* the displayed counts of skills met, missing and weak equal the lengths of the
\* report's lists (0 when a list is absent), and the gap score is displayed with
\* two decimals when present and as a placeholder when absent.
C27_AsStated ==
  /\ view = "chat" => \A report \in ChatReports :
                        FiguresAsStated(report, ChatSummary(report))
  /\ view = "profile" /\ profileDisplay.analysisResult # Null
       => /\ FiguresAsStated(profileDisplay.analysisResult,
                             ResultsBox(profileDisplay.analysisResult))
          /\ FiguresAsStated(profileDisplay.analysisResult,
                             SkillsSummary(profileDisplay.analysisResult))

(***************************************************************************)
(* Profile view to chat (AnalysisChat.jsx 475-522, 590-597; App.jsx 47-50) *)
(***************************************************************************)
\* C28: the profile view is left for the chat only after the getProfile call
\* for the selected id has succeeded: while the profile is loading or after
\* the load failed 'Analyze Skills' is not enabled, the profile shown is set
\* only by the resolved call for the selected id, and the profile handed to
\* the chat is that profile.
C28_ChatOnlyAfterLoad ==
  /\ [](view = "profile" /\ (profileDisplay.loading \/ Truthy(profileDisplay.error))
          => ~ENABLED handleAnalyze)
  /\ [](view = "profile" =>
          \A c \in getCalls : c.live => c.request = ProfileIdProp(selectedProfile))
  /\ [][view = "profile" /\ profileDisplay'.profile \notin {Null, profileDisplay.profile}
          => /\ event' = Event("loadProfile.then", "applied", Null)
             /\ \E c \in getCalls \ getCalls' :
                  c.live /\ c.request = ProfileIdProp(selectedProfile)]_vars
  /\ [][view = "profile" /\ view' = "chat"
          => /\ event'.name = "handleAnalyze"
             /\ ~profileDisplay.loading
             /\ ~Truthy(profileDisplay.error)
             /\ profileDisplay.profile \in ProfileBodies
             /\ selectedProfile' = profileDisplay.profile]_vars

\* the chat was opened with the profile the service returned
C28_Witness ==
  /\ view = "chat"
  /\ event.name = "handleAnalyze"
  /\ selectedProfile \in ProfileBodies
  /\ selectedProfile.id = S(<<"1">>)

\* the load failed: the profile view shows the error and no button
C28_WitnessFailed ==
  /\ view = "profile"
  /\ Truthy(profileDisplay.error)
  /\ ~ENABLED handleAnalyze

(***************************************************************************)
(* View and selected profile (App.jsx 9-10, 35-55, 107-121)                *)
(***************************************************************************)
\* C29: in every reachable state the view is one of list, create, profile and
\* chat, and whenever the view is profile or chat a selected profile is
\* present: the profile view or the chat with no selected profile is
\* unreachable.
C29_ViewHasSelectedProfile ==
  /\ view \in {"list", "create", "profile", "chat"}
  /\ view \in {"profile", "chat"} => selectedProfile # Null

\* the chat is in use on a selected profile
C29_Witness ==
  /\ view = "chat"
  /\ selectedProfile # Null
  /\ event = Event("handleSend", "accepted", Null)

\* the profile view is open on a selected card
C29_WitnessProfile ==
  /\ view = "profile"
  /\ selectedProfile # Null
  /\ event.name = "selectProfile" /\ event.outcome = "selected"

(***************************************************************************)
(* ProfileForm: failed submit (AnalysisChat.jsx 255-279; App.jsx 30-33)    *)
(***************************************************************************)
\* the text the form shows for a rejection: the detail of the response, else
\* the raw message, else the fixed text
CreateErrorShown(err) ==
  IF err.detail.def /\ err.detail.str # <<>> THEN err.detail.str
  ELSE IF err.message.def /\ err.message.str # <<>> THEN err.message.str
  ELSE <<"Failed to create profile">>

\* C30: a failed createProfile call keeps the view on the create form, shows
\* the error in the form (the detail, else the raw message, else 'Failed to
\* create profile') and leaves the entered form data (name, role, skills,
\* certifications) as they are; the success callback that moves the view to
\* the list runs only in the step in which a create call succeeded, never in
\* a catch step.
C30_FailedCreateKeepsForm ==
  /\ [][event'.name = "handleSubmit.catch" /\ event'.outcome = "applied" =>
          /\ view = "create" /\ view' = "create"
          /\ profileForm'.error.def
          /\ profileForm'.error.str = CreateErrorShown(event'.arg)
          /\ profileForm'.formData = profileForm.formData
          /\ profileForm'.newSkill = profileForm.newSkill
          /\ profileForm'.newCert = profileForm.newCert]_vars
  /\ [][event'.name = "handleSubmit.catch" =>
          /\ view' = view
          /\ listCalls' = listCalls
          /\ \E c \in createCalls : createCalls' = createCalls \ {c}]_vars
  /\ [][view = "create" /\ view' = "list" =>
          \/ event'.name = "handleBackToList"
          \/ /\ event'.name = "handleSubmit.then"
             /\ \E c \in createCalls : createCalls' = createCalls \ {c}]_vars

\* a create call with a skill and a certification failed without detail and
\* message: the form shows the fixed text and still holds the data
C30_Witness ==
  /\ view = "create"
  /\ event.name = "handleSubmit.catch" /\ event.outcome = "applied"
  /\ event.arg = [detail |-> Undefined, message |-> Undefined]
  /\ profileForm.error = S(<<"Failed to create profile">>)
  /\ profileForm.formData.name = <<"n">>
  /\ Len(profileForm.formData.skills) = 1
  /\ Len(profileForm.formData.certifications) = 1

\* the response's detail is shown in preference to the raw message
C30_WitnessDetail ==
  /\ view = "create"
  /\ event.name = "handleSubmit.catch" /\ event.outcome = "applied"
  /\ profileForm.error = S(<<"profile not found">>)

(***************************************************************************)
(* Late create response (AnalysisChat.jsx 270-273, 439-446; App.jsx 30-33) *)
(***************************************************************************)
\* C31: a createProfile response that settles after the user has left the
\* create form (cancelled, and possibly opened a profile or the chat) does not
\* change the router: the view and the selected profile stay as they were, and
\* the change from create to list on success happens only while the view is
\* create.
C31_AsStated ==
  /\ [][event'.name = "handleSubmit.then" /\ event'.outcome = "stale"
          => view' = view /\ selectedProfile' = selectedProfile]_vars
  /\ [][event'.name = "handleSubmit.then" /\ view' # view => view = "create"]_vars

\* C32: whenever the view is list no profile is selected (selectedProfile is
\* null), after any sequence of navigation actions and asynchronous responses.
C32_AsStated == view = "list" => selectedProfile = Null

(***************************************************************************)
(* Chat log: alternation (AnalysisChat.jsx 20-67)                          *)
(***************************************************************************)
\* C33: in every reachable state of a chat session the log alternates
\* strictly: the messages at positions 1, 3, 5, ... are user messages, those
\* at positions 2, 4, 6, ... are assistant or error messages, and the length
\* of the log is odd exactly when the session is busy: every user message gets
\* one response message and never two.
C33_LogAlternates ==
  /\ \A i \in DOMAIN analysisChat.messages :
       IF i % 2 = 1
       THEN analysisChat.messages[i].type = "user"
       ELSE analysisChat.messages[i].type \in {"assistant", "error"}
  /\ (Len(analysisChat.messages) % 2 = 1) <=> analysisChat.loading

\* two exchanges: the first failed, the second was answered
C33_Witness ==
  /\ view = "chat"
  /\ Len(analysisChat.messages) = 4
  /\ analysisChat.messages[2].type = "error"
  /\ analysisChat.messages[4].type = "assistant"
  /\ ~analysisChat.loading

\* a query is awaiting its response
C33_WitnessBusy ==
  /\ view = "chat"
  /\ Len(analysisChat.messages) = 3
  /\ analysisChat.loading

(***************************************************************************)
(* Skills modal: open exactly with items and title (AnalysisChat.jsx       *)
(* 471-473, 558-572)                                                       *)
(***************************************************************************)
\* C34: in every reachable state of the skills modal, it is open if and only
\* if its items are non-empty and its title is non-empty: an open modal lists
\* at least one skill, and a closed modal holds no items and an empty title.
C34_OpenIffItemsAndTitle ==
  /\ profileDisplay.showSkillsModal
       <=> (Len(profileDisplay.modalSkills) > 0 /\ Len(profileDisplay.modalTitle) > 0)
  /\ ~profileDisplay.showSkillsModal
       => profileDisplay.modalSkills = <<>> /\ profileDisplay.modalTitle = <<>>

\* the modal lists the one weak skill, and the analysis was started again
\* behind it
C34_Witness ==
  /\ view = "profile"
  /\ profileDisplay.showSkillsModal
  /\ profileDisplay.modalTitle = SkillsWeak
  /\ profileDisplay.modalSkills = <<Skill("go")>>
  /\ profileDisplay.analyzing

\* the modal was opened and closed again
C34_WitnessClosed ==
  /\ view = "profile"
  /\ event.name = "handleCloseModal"
  /\ ~profileDisplay.showSkillsModal
  /\ profileDisplay.modalSkills = <<>>

(***************************************************************************)
(* Dashboard analysis: result, error, analyzing (AnalysisChat.jsx 524-556, *)
(* 700-703)                                                                *)
(***************************************************************************)
\* C35: in the dashboard analysis the result and the error are never both
\* set: starting an analysis clears both and sets analyzing, so while
\* analyzing both are absent, and after the call has settled exactly one of
\* them is set (the result on success, the error on failure) with analyzing
\* false.
C35_ResultXorError ==
  /\ [](~(profileDisplay.analysisResult # Null /\ Truthy(profileDisplay.analysisError)))
  /\ [](profileDisplay.analyzing
          => profileDisplay.analysisResult = Null
             /\ profileDisplay.analysisError = NoError)
  /\ [][event' = Event("displayAnalyze", "accepted", Null)
          => /\ profileDisplay'.analyzing
             /\ profileDisplay'.analysisResult = Null
             /\ profileDisplay'.analysisError = NoError]_vars
  /\ [][event'.name = "displayAnalyze.then"
          => /\ profileDisplay'.analysisResult \in Reports
             /\ profileDisplay'.analysisError = NoError
             /\ ~profileDisplay'.analyzing]_vars
  /\ [][event'.name = "displayAnalyze.catch"
          => /\ profileDisplay'.analysisResult = Null
             /\ Truthy(profileDisplay'.analysisError)
             /\ ~profileDisplay'.analyzing]_vars

\* an analysis succeeded, the next one on the same profile failed
C35_Witness ==
  /\ view = "profile"
  /\ event.name = "displayAnalyze.catch"
  /\ profileDisplay.analysisResult = Null
  /\ profileDisplay.analysisError = S(<<"Failed to analyze skills">>)
  /\ ~profileDisplay.analyzing
  /\ profileDisplay.showSkillsModal

\* an analysis succeeded
C35_WitnessResult ==
  /\ view = "profile"
  /\ event.name = "displayAnalyze.then"
  /\ profileDisplay.analysisResult \in Reports
  /\ profileDisplay.analysisError = NoError

\* the dashboard analyze requests the mounted profile view awaits
LiveDisplayCalls == {c \in analyzeCalls : c.live /\ c.by = "display"}

\* C36: a profile view never has more than one dashboard analyze request
\* outstanding: while analyzing is true the Analyze button is not enabled, so
\* a second request cannot be issued before the first has settled.
C36_OneDashboardRequest ==
  /\ [](Cardinality(LiveDisplayCalls) <= 1)
  /\ [](profileDisplay.analyzing <=> LiveDisplayCalls # {})
  /\ [](profileDisplay.analyzing => ~ENABLED displayAnalyze)
  /\ [][event' = Event("displayAnalyze", "accepted", Null)
          => /\ ~profileDisplay.analyzing
             /\ LiveDisplayCalls = {}
             /\ \E c \in analyzeCalls' : analyzeCalls' = analyzeCalls \cup {c}]_vars

\* a request is outstanding, and the user has typed goals for another one
C36_Witness ==
  /\ view = "profile"
  /\ profileDisplay.analyzing
  /\ profileDisplay.targetRole = <<"r">>
  /\ profileDisplay.analysisQuery = <<"q">>
  /\ \E c \in LiveDisplayCalls : c.request.user_query # <<"q">>
  /\ ~ENABLED displayAnalyze

(***************************************************************************)
(* ProfileForm: add and remove (AnalysisChat.jsx 221-253)                  *)
(***************************************************************************)
\* list2 is list with entry appended: one element more, the earlier ones kept
AppendedTo(list, entry, list2) ==
  /\ Len(list2) = Len(list) + 1
  /\ \A i \in 1..Len(list) : list2[i] = list[i]
  /\ list2[Len(list2)] = entry

\* C37: adding a skill with a non-blank name appends exactly one skill, equal
\* to the entry buffer, at the end of the skills list, leaves the earlier
\* skills and the certifications as they are, and resets the entry buffer to
\* {name: '', proficiency: beginner, years_experience: 0}; adding a non-blank
\* certification likewise appends exactly one entry at the end and clears its
\* buffer.
C37_AddAppendsOne ==
  /\ [][event'.name = "handleAddSkill" /\ ~OnlySpaces(profileForm.newSkill.name) =>
          /\ AppendedTo(profileForm.formData.skills, profileForm.newSkill,
                        profileForm'.formData.skills)
          /\ profileForm'.formData.certifications = profileForm.formData.certifications
          /\ profileForm'.newSkill =
               [name |-> <<>>, proficiency |-> <<"beginner">>, years_experience |-> 0]
          /\ profileForm'.newCert = profileForm.newCert]_vars
  /\ [][event'.name = "handleAddCert" /\ ~OnlySpaces(profileForm.newCert) =>
          /\ AppendedTo(profileForm.formData.certifications, profileForm.newCert,
                        profileForm'.formData.certifications)
          /\ profileForm'.formData.skills = profileForm.formData.skills
          /\ profileForm'.newCert = <<>>
          /\ profileForm'.newSkill = profileForm.newSkill]_vars

\* a third skill, typed with a leading space and as expert, was added behind
\* two others
C37_Witness ==
  /\ event.name = "handleAddSkill"
  /\ Len(profileForm.formData.skills) = 3
  /\ profileForm.formData.skills[1].name = <<"s">>
  /\ profileForm.formData.skills[3] =
       [name |-> <<" ", "t">>, proficiency |-> <<"expert">>, years_experience |-> 0]
  /\ profileForm.newSkill = NewSkillInit
  /\ Len(profileForm.formData.certifications) = 1

\* a second certification was added behind another one
C37_WitnessCert ==
  /\ event.name = "handleAddCert"
  /\ profileForm.formData.certifications = << <<" ", "t">>, <<"s">> >>
  /\ profileForm.newCert = <<>>
  /\ Len(profileForm.formData.skills) = 2

\* list2 is list without its element at position index, the others in order
RemovedFrom(list, index, list2) ==
  /\ index \in 1..Len(list)
  /\ Len(list2) = Len(list) - 1
  /\ \A j \in 1..Len(list2) : list2[j] = IF j < index THEN list[j] ELSE list[j + 1]

\* C38: removing the skill (or the certification) at index i removes exactly
\* the element at position i and keeps the remaining elements in their order,
\* and leaves the other list as it is; hence adding a non-blank entry and then
\* removing the last index gives back the list as it was before the add.
C38_RemoveTakesOne ==
  /\ [][event'.name = "handleRemoveSkill" =>
          /\ RemovedFrom(profileForm.formData.skills, event'.arg.index,
                         profileForm'.formData.skills)
          /\ profileForm'.formData.certifications = profileForm.formData.certifications
          /\ profileForm'.newSkill = profileForm.newSkill]_vars
  /\ [][event'.name = "handleRemoveCert" =>
          /\ RemovedFrom(profileForm.formData.certifications, event'.arg.index,
                         profileForm'.formData.certifications)
          /\ profileForm'.formData.skills = profileForm.formData.skills
          /\ profileForm'.newCert = profileForm.newCert]_vars
  /\ [](~OnlySpaces(profileForm.newSkill.name) =>
          RemoveAt(AddSkill(profileForm).formData.skills,
                   Len(profileForm.formData.skills) + 1)
            = profileForm.formData.skills)
  /\ [](~OnlySpaces(profileForm.newCert) =>
          RemoveAt(AddCert(profileForm).formData.certifications,
                   Len(profileForm.formData.certifications) + 1)
            = profileForm.formData.certifications)

\* the second of three skills was removed: the first and the third remain, in
\* this order
C38_Witness ==
  /\ event = Event("handleRemoveSkill", "done", [index |-> 2])
  /\ Len(profileForm.formData.skills) = 2
  /\ profileForm.formData.skills[1].name = <<"s">>
  /\ profileForm.formData.skills[2].name = <<" ", "t">>
  /\ Len(profileForm.formData.certifications) = 2

\* the first of three certifications was removed
C38_WitnessCert ==
  /\ event = Event("handleRemoveCert", "done", [index |-> 1])
  /\ profileForm.formData.certifications = << <<"s">>, <<" ", "t">> >>
  /\ Len(profileForm.formData.skills) = 1

\* a skill was added and the last index removed again
C38_WitnessRoundTrip ==
  /\ event = Event("handleRemoveSkill", "done", [index |-> 3])
  /\ Len(profileForm.formData.skills) = 2
  /\ profileForm.newSkill = NewSkillInit

====
